---- MODULE Spec2Model ----
(***************************************************************************)
(* A model of the RDFormat validator (src/src/validator/index.ts), its     *)
(* schema (src/src/types/schema.ts) and the fixer (src/unnamed/part_006).  *)
(*                                                                         *)
(* JSON values are records of one shape, so that any two of them can be    *)
(* compared: k is the runtime kind, s the text of a string, n the value of *)
(* a number (1/0 for a boolean, the address for a heap reference), ks the  *)
(* own keys of an object in insertion order, o the own properties, e the   *)
(* elements of an array.  A string that the program builds as a path       *)
(* ("diagnostics[0].message") is a sequence of tokens: names and the       *)
(* separators ".", "[" and "]".                                            *)
(***************************************************************************)
EXTENDS Integers, Sequences, FiniteSets, TLC

VARIABLES oneOf, options, op, document, result, heap, fixInput, dataRef, fixLevel, fixReturn,
          rerun

vars == <<oneOf, options, op, document, result, heap, fixInput, dataRef, fixLevel, fixReturn,
          rerun>>

(***************************************************************************)
(* Bounds of the model.                                                    *)
(***************************************************************************)
\* the longest array among the enumerated documents
MaxItems == 2
\* the largest line or column number among the enumerated documents
MaxLine == 1

(***************************************************************************)
(* JSON values.                                                            *)
(***************************************************************************)
NoProps == [x \in {} |-> 0]

Undef == [k |-> "undefined", s |-> "", n |-> 0, ks |-> <<>>, o |-> NoProps, e |-> <<>>]

Null == [k |-> "null", s |-> "", n |-> 0, ks |-> <<>>, o |-> NoProps, e |-> <<>>]

Bool(b) == [k |-> "boolean", s |-> "", n |-> IF b THEN 1 ELSE 0, ks |-> <<>>, o |-> NoProps, e |-> <<>>]

Num(i) == [k |-> "number", s |-> "", n |-> i, ks |-> <<>>, o |-> NoProps, e |-> <<>>]

Str(t) == [k |-> "string", s |-> t, n |-> 0, ks |-> <<>>, o |-> NoProps, e |-> <<>>]

Obj(keys, props) == [k |-> "object", s |-> "", n |-> 0, ks |-> keys, o |-> props, e |-> <<>>]

Arr(elems) == [k |-> "array", s |-> "", n |-> 0, ks |-> <<>>, o |-> NoProps, e |-> elems]

\* the number NaN
NaN == [k |-> "number", s |-> "NaN", n |-> 0, ks |-> <<>>, o |-> NoProps, e |-> <<>>]

IsNaN(v) == v.k = "number" /\ v.s = "NaN"

\* a reference to the container stored at heap address a
Ref(a) == [k |-> "ref", s |-> "", n |-> a, ks |-> <<>>, o |-> NoProps, e |-> <<>>]

EmptyObject == Obj(<<>>, NoProps)

\* an object literal with one or two properties
Obj1(k1, v1) == Obj(<<k1>>, (k1 :> v1))

Obj2(k1, v1, k2, v2) == Obj(<<k1, k2>>, (k1 :> v1) @@ (k2 :> v2))

\* JavaScript's typeof
TypeOf(v) ==
    CASE v.k = "undefined" -> "undefined"
      [] v.k = "boolean" -> "boolean"
      [] v.k = "number" -> "number"
      [] v.k = "string" -> "string"
      [] OTHER -> "object"

IsArray(v) == v.k = "array"

\* JavaScript's ToBoolean, as used by `a && b`, `!a`, `if (a)`
Truthy(v) ==
    CASE v.k \in {"undefined", "null"} -> FALSE
      [] v.k = "boolean" -> v.n = 1
      [] v.k = "number" -> v.n # 0 /\ ~IsNaN(v)
      [] v.k = "string" -> v.s # ""
      [] OTHER -> TRUE

\* /^\d+$/.test(t), for the decimal numerals the model writes
IsDigits(t) == \E i \in 0..(MaxItems + MaxLine + 5) : ToString(i) = t

\* the number a decimal numeral denotes
DigitsValue(t) == CHOOSE i \in 0..(MaxItems + MaxLine + 5) : ToString(i) = t

\* obj.hasOwnProperty(key) for an object or array
HasOwn(v, key) ==
    \/ v.k \in {"object", "array"} /\ key \in DOMAIN v.o
    \/ v.k = "array" /\ IsDigits(key) /\ DigitsValue(key) < Len(v.e)

\* v[key]: an own property, an array element; undefined otherwise
\* (the keys in use are not properties of the built-in prototypes)
Prop(v, key) ==
    IF v.k = "array" /\ IsDigits(key) /\ DigitsValue(key) < Len(v.e)
    THEN v.e[DigitsValue(key) + 1]
    ELSE IF v.k \in {"object", "array"} /\ key \in DOMAIN v.o
    THEN v.o[key]
    ELSE Undef

\* Object.keys(v)
Keys(v) ==
    IF v.k = "array"
    THEN [i \in 1..Len(v.e) |-> ToString(i - 1)] \o v.ks
    ELSE v.ks

(***************************************************************************)
(* Strings.                                                                *)
(***************************************************************************)
\* t.trim() === ''
IsBlank(t) == t \in {"", " "}

\* t.toLowerCase(), for the strings the model writes
ToLowerCase(t) ==
    CASE t = "ERROR" -> "error"
      [] t = "WARNING" -> "warning"
      [] t = "INFO" -> "info"
      [] t = "Warn" -> "warn"
      [] t = "UNKNOWN_SEVERITY" -> "unknown_severity"
      [] t = "No message provided" -> "no message provided"
      [] OTHER -> t

\* !isNaN(Number(t)): decimal numerals, and the blank strings, which convert to 0
IsNumeric(t) == IsBlank(t) \/ IsDigits(t)

\* Number(t) for a numeric string
NumberOf(t) == IF IsBlank(t) THEN 0 ELSE DigitsValue(t)

\* new RegExp('^https?://.+').test(t), for the strings the model writes
MatchesUrl(t) == t \in {"http://u"}

(***************************************************************************)
(* The schema graph (src/src/types/schema.ts).  A schema node is a record  *)
(* of one shape; an absent keyword is the empty string, sequence or set.   *)
(***************************************************************************)
Node ==
    [type |-> "", title |-> "", required |-> <<>>, props |-> <<>>, ps |-> NoProps,
     items |-> <<>>, enum |-> <<>>, minLength |-> {}, maxLength |-> {},
     minimum |-> {}, maximum |-> {}, pattern |-> {}, additionalProperties |-> {},
     oneOf |-> <<>>]

positionSchema ==
    [Node EXCEPT !.type = "object", !.title = "Position", !.required = <<"line">>,
        !.props = <<"line", "column">>,
        !.ps = ("line" :> [Node EXCEPT !.type = "number", !.minimum = {1}])
            @@ ("column" :> [Node EXCEPT !.type = "number", !.minimum = {1}]),
        !.additionalProperties = {FALSE}]

rangeSchema ==
    [Node EXCEPT !.type = "object", !.title = "Range", !.required = <<"start">>,
        !.props = <<"start", "end">>,
        !.ps = ("start" :> positionSchema) @@ ("end" :> positionSchema),
        !.additionalProperties = {FALSE}]

locationSchema ==
    [Node EXCEPT !.type = "object", !.title = "Location", !.required = <<"path">>,
        !.props = <<"path", "range">>,
        !.ps = ("path" :> [Node EXCEPT !.type = "string", !.minLength = {1}])
            @@ ("range" :> rangeSchema),
        !.additionalProperties = {FALSE}]

sourceSchema ==
    [Node EXCEPT !.type = "object", !.title = "Source", !.required = <<"name">>,
        !.props = <<"name", "url">>,
        !.ps = ("name" :> [Node EXCEPT !.type = "string", !.minLength = {1}])
            @@ ("url" :> [Node EXCEPT !.type = "string", !.pattern = {"^https?://.+"}]),
        !.additionalProperties = {FALSE}]

codeSchema ==
    [Node EXCEPT !.type = "object", !.title = "Code",
        !.props = <<"value", "url">>,
        !.ps = ("value" :> [Node EXCEPT !.type = "string", !.minLength = {1}])
            @@ ("url" :> [Node EXCEPT !.type = "string", !.pattern = {"^https?://.+"}]),
        !.additionalProperties = {FALSE}]

suggestionSchema ==
    [Node EXCEPT !.type = "object", !.title = "Suggestion", !.required = <<"text", "range">>,
        !.props = <<"range", "text">>,
        !.ps = ("range" :> rangeSchema) @@ ("text" :> [Node EXCEPT !.type = "string"]),
        !.additionalProperties = {FALSE}]

relatedLocationSchema ==
    [Node EXCEPT !.type = "object", !.title = "RelatedLocation", !.required = <<"location">>,
        !.props = <<"message", "location">>,
        !.ps = ("message" :> [Node EXCEPT !.type = "string"]) @@ ("location" :> locationSchema),
        !.additionalProperties = {FALSE}]

severityEnum == <<"UNKNOWN_SEVERITY", "ERROR", "WARNING", "INFO">>

diagnosticSchema ==
    [Node EXCEPT !.type = "object", !.title = "Diagnostic", !.required = <<"message", "location">>,
        !.props = <<"message", "location", "severity", "source", "code", "suggestions",
                    "original_output", "related_locations">>,
        !.ps = ("message" :> [Node EXCEPT !.type = "string", !.minLength = {1}])
            @@ ("location" :> locationSchema)
            @@ ("severity" :> [Node EXCEPT !.type = "string", !.enum = severityEnum])
            @@ ("source" :> sourceSchema)
            @@ ("code" :> codeSchema)
            @@ ("suggestions" :> [Node EXCEPT !.type = "array", !.items = <<suggestionSchema>>])
            @@ ("original_output" :> [Node EXCEPT !.type = "string"])
            @@ ("related_locations" :> [Node EXCEPT !.type = "array", !.items = <<relatedLocationSchema>>]),
        !.additionalProperties = {FALSE}]

diagnosticArraySchema ==
    [Node EXCEPT !.type = "array", !.title = "DiagnosticArray", !.items = <<diagnosticSchema>>]

diagnosticResultSchema ==
    [Node EXCEPT !.type = "object", !.title = "DiagnosticResult", !.required = <<"diagnostics">>,
        !.props = <<"diagnostics", "source", "severity">>,
        !.ps = ("diagnostics" :> [Node EXCEPT !.type = "array", !.items = <<diagnosticSchema>>])
            @@ ("source" :> sourceSchema)
            @@ ("severity" :> [Node EXCEPT !.type = "string", !.enum = severityEnum]),
        !.additionalProperties = {FALSE}]

\* the alternatives of rdformatSchema.oneOf in the order of the declaration
DeclaredOneOf == <<"Diagnostic", "DiagnosticArray", "DiagnosticResult">>

\* an alternative of the top-level oneOf, by its title
Alternative(title) ==
    CASE title = "Diagnostic" -> diagnosticSchema
      [] title = "DiagnosticArray" -> diagnosticArraySchema
      [] title = "DiagnosticResult" -> diagnosticResultSchema

\* rdformatSchema, whose oneOf array currently holds the alternatives in `order`
rdformatSchema(order) ==
    [Node EXCEPT !.title = "Reviewdog Diagnostic Format",
        !.oneOf = [i \in 1..Len(order) |-> Alternative(order[i])]]

\* getSchema(schemaName)
getSchema(schemaName, order) ==
    CASE schemaName = "position" -> positionSchema
      [] schemaName = "range" -> rangeSchema
      [] schemaName = "location" -> locationSchema
      [] schemaName = "source" -> sourceSchema
      [] schemaName = "code" -> codeSchema
      [] schemaName = "suggestion" -> suggestionSchema
      [] schemaName = "relatedLocation" -> relatedLocationSchema
      [] schemaName = "diagnostic" -> diagnosticSchema
      [] schemaName = "rdformat" -> rdformatSchema(order)

\* arr.includes(x) for a sequence
Includes(seq, x) == \E i \in 1..Len(seq) : seq[i] = x

(***************************************************************************)
(* The validator (src/src/validator/index.ts).                             *)
(***************************************************************************)
\* ErrorReporter.createError: the message text is determined by the code, the
\* path, the value and the context; `constraint` is the number the text of a
\* length or bound violation spells out ("must be at least 1")
createError(path, code, value, expected, constraint) ==
    [path |-> path, code |-> code, value |-> value, expected |-> expected,
     constraint |-> constraint]

\* ErrorReporter.createWarning
createWarning(path, code) == [path |-> path, code |-> code]

\* Validator.joinPath; `segment` is a string, given as its tokens
joinPath(basePath, segment) ==
    IF basePath = <<>> THEN segment
    ELSE IF Len(segment) = 1 /\ IsDigits(segment[1])
    THEN basePath \o <<"[">> \o segment \o <<"]">>
    ELSE basePath \o <<".">> \o segment

\* Validator.validateType
validateType(value, expectedType) ==
    CASE expectedType = "string" -> value.k = "string"
      [] expectedType = "number" -> value.k = "number" /\ ~IsNaN(value)
      [] expectedType = "boolean" -> value.k = "boolean"
      [] expectedType = "object" -> value.k = "object"
      [] expectedType = "array" -> value.k = "array"
      [] expectedType = "null" -> value.k = "null"
      [] OTHER -> FALSE

\* errors.filter(e => codes.includes(e.code)).length
CountCodes(errors, codes) == Cardinality({i \in 1..Len(errors) : errors[i].code \in codes})

\* names.filter(prop => valueProps.includes(prop)).length
CountIncluded(names, valueProps) ==
    Cardinality({i \in 1..Len(names) : \E j \in 1..Len(valueProps) : valueProps[j] = names[i]})

Max(a, b) == IF a >= b THEN a ELSE b

\* Validator.calculateSchemaMatchScore
calculateSchemaMatchScore(value, schema, errors) ==
    LET typeMismatchErrors == CountCodes(errors, {"TYPE_MISMATCH"})
        missingPropErrors == CountCodes(errors, {"REQUIRED_PROPERTY_MISSING"})
        structuralErrors == CountCodes(errors,
            {"MIN_LENGTH_VIOLATION", "MAX_LENGTH_VIOLATION", "PATTERN_MISMATCH",
             "EMPTY_STRING", "MIN_VALUE_VIOLATION", "MAX_VALUE_VIOLATION",
             "ENUM_VALIDATION_FAILED", "INVALID_POSITION", "INVALID_RANGE",
             "INVALID_LOCATION", "INVALID_SEVERITY"})
        isObj == schema.type = "object" /\ value.k = "object"
        bonus ==
            (IF isObj /\ Includes(schema.required, "message") /\ Truthy(Prop(value, "message"))
             THEN 10 ELSE 0)
            + (IF isObj /\ Includes(schema.required, "location") /\ Truthy(Prop(value, "location"))
               THEN 10 ELSE 0)
            - (IF isObj /\ Includes(schema.required, "diagnostics") /\ ~Truthy(Prop(value, "diagnostics"))
               THEN 20 ELSE 0)
    IN Max(0, 100 - Len(errors) * 5 - typeMismatchErrors * 50 - missingPropErrors * 30
              + structuralErrors * 2 + bonus)

\* Validator.getSchemaLikelihoodScore, in sixtieths: the score is a fraction
\* whose denominator divides 60 for values of at most six keys
RECURSIVE getSchemaLikelihoodScore(_, _)
getSchemaLikelihoodScore(schema, value) ==
    IF schema.type # "" /\ ~validateType(value, schema.type) THEN 0
    ELSE
    LET typeScore == IF schema.type # "" THEN 10 * 60 ELSE 0
        isObj == schema.type = "object" /\ value.k = "object"
        valueProps == Keys(value)
        matchingRequired == CountIncluded(schema.required, valueProps)
        requiredScore ==
            IF ~isObj \/ schema.required = <<>> THEN 0
            ELSE IF matchingRequired = Len(schema.required) THEN 50 * 60
            ELSE (matchingRequired * 5 - (Len(schema.required) - matchingRequired) * 20) * 60
        matchingProps == CountIncluded(schema.props, valueProps)
        propsScore ==
            IF ~isObj \/ schema.props = <<>> THEN 0
            ELSE matchingProps * 2 * 60
                 + (matchingProps * 10 * 60) \div Max(Len(valueProps), 1)
        diagnosticBonus ==
            IF isObj /\ Truthy(Prop(value, "message")) /\ Truthy(Prop(value, "location"))
               /\ Includes(schema.required, "message") /\ Includes(schema.required, "location")
            THEN 30 * 60 ELSE 0
        resultPenalty ==
            IF isObj /\ Includes(schema.required, "diagnostics")
               /\ (Truthy(Prop(value, "message")) \/ Truthy(Prop(value, "location")))
            THEN 25 * 60 ELSE 0
        arrayScore ==
            IF schema.type = "array" /\ value.k = "array"
            THEN 15 * 60
                 + (IF Len(value.e) > 0 /\ schema.items # <<>>
                    THEN (getSchemaLikelihoodScore(schema.items[1], value.e[1]) * 3) \div 10
                    ELSE 0)
            ELSE 0
    IN Max(0, typeScore + requiredScore + propsScore + diagnosticBonus - resultPenalty
              + arrayScore)

\* Array.prototype.sort with the comparator scoreB - scoreA: a stable sort of
\* the alternatives by descending score (insertion of each one behind those
\* that score at least as much)
RECURSIVE InsertByScore(_, _)
InsertByScore(sorted, x) ==
    IF sorted = <<>> THEN <<x>>
    ELSE IF x.score > Head(sorted).score THEN <<x>> \o sorted
    ELSE <<Head(sorted)>> \o InsertByScore(Tail(sorted), x)

RECURSIVE StableSortDesc(_)
StableSortDesc(scored) ==
    IF scored = <<>> THEN <<>>
    ELSE InsertByScore(StableSortDesc(SubSeq(scored, 1, Len(scored) - 1)), scored[Len(scored)])

\* the schemas of a sequence of scored schemas
SchemasOf(scored) == [i \in 1..Len(scored) |-> scored[i].schema]

\* Validator.sortSchemasByLikelihood: the order in which it leaves the array
\* of alternatives it was given (it sorts that array in place)
sortSchemasByLikelihood(schemas, value) ==
    SchemasOf(StableSortDesc([i \in 1..Len(schemas) |->
        [schema |-> schemas[i], score |-> getSchemaLikelihoodScore(schemas[i], value)]]))

\* the errors and warnings a step of the validation pushes
Pushed(errors, warnings) == [e |-> errors, w |-> warnings]

\* what two steps push, one after the other
Both(first, second) == Pushed(first.e \o second.e, first.w \o second.w)

RECURSIVE validateValue(_, _, _, _)
RECURSIVE oneOfLoop(_, _, _, _, _, _)
RECURSIVE oneOfStep(_, _, _, _, _, _, _)
RECURSIVE validateProperties(_, _, _, _, _)
RECURSIVE validateArray(_, _, _, _, _)

\* Validator.validateObject, its first loop: one error per missing required property
requiredErrors(obj, schema, path) ==
    LET missing == SelectSeq(schema.required, LAMBDA p : ~HasOwn(obj, p))
    IN [i \in 1..Len(missing) |->
           createError(joinPath(path, <<missing[i]>>), "REQUIRED_PROPERTY_MISSING", Undef,
                       <<"object", "with", "required", "property", missing[i]>>, <<>>)]

\* Validator.validateObject, its second loop, from the i-th declared property on
validateProperties(obj, schema, i, path, opts) ==
    IF i > Len(schema.props) THEN Pushed(<<>>, <<>>)
    ELSE Both(IF HasOwn(obj, schema.props[i])
              THEN validateValue(obj.o[schema.props[i]], schema.ps[schema.props[i]],
                                 joinPath(path, <<schema.props[i]>>), opts)
              ELSE Pushed(<<>>, <<>>),
              validateProperties(obj, schema, i + 1, path, opts))

\* Validator.validateObject, its third loop: the properties the schema does not declare
extraProperties(obj, schema, path, opts) ==
    IF schema.props # <<>> /\ (schema.additionalProperties = {FALSE} \/ ~opts.allowExtraFields)
    THEN LET unknown == SelectSeq(Keys(obj), LAMBDA p : ~Includes(schema.props, p))
         IN IF opts.strictMode
            THEN Pushed([i \in 1..Len(unknown) |->
                            createError(joinPath(path, <<unknown[i]>>), "UNKNOWN_PROPERTY",
                                        obj.o[unknown[i]], <<"property", "not", "present">>, <<>>)],
                        <<>>)
            ELSE Pushed(<<>>, [i \in 1..Len(unknown) |->
                            createWarning(joinPath(path, <<unknown[i]>>), "UNKNOWN_PROPERTY")])
    ELSE Pushed(<<>>, <<>>)

\* Validator.validateObject
validateObject(obj, schema, path, opts) ==
    Both(Pushed(requiredErrors(obj, schema, path), <<>>),
         Both(validateProperties(obj, schema, 1, path, opts),
              extraProperties(obj, schema, path, opts)))

\* Validator.validateArray, from the element of index i - 1 on
validateArray(arr, schema, i, path, opts) ==
    IF schema.items = <<>> \/ i > Len(arr.e) THEN Pushed(<<>>, <<>>)
    ELSE Both(validateValue(arr.e[i], schema.items[1],
                            joinPath(path, <<ToString(i - 1)>>), opts),
              validateArray(arr, schema, i + 1, path, opts))

\* Validator.validateValue, the string constraints
stringErrors(value, schema, path) ==
    IF schema.type = "string" /\ value.k = "string"
    THEN (IF schema.minLength # {} /\ (\E m \in schema.minLength : m > 0) /\ IsBlank(value.s)
          THEN <<createError(path, "EMPTY_STRING", value, <<"non-empty", "string">>, <<>>)>>
          ELSE IF \E m \in schema.minLength : Len(value.s) < m
          THEN LET m == CHOOSE m \in schema.minLength : TRUE
               IN <<createError(path, "MIN_LENGTH_VIOLATION", value,
                        <<"string", "with", "minimum", "length", ToString(m)>>, <<m>>)>>
          ELSE <<>>)
         \o (IF \E m \in schema.maxLength : Len(value.s) > m
             THEN LET m == CHOOSE m \in schema.maxLength : TRUE
                  IN <<createError(path, "MAX_LENGTH_VIOLATION", value,
                        <<"string", "with", "maximum", "length", ToString(m)>>, <<m>>)>>
             ELSE <<>>)
         \o (IF schema.pattern # {} /\ ~MatchesUrl(value.s)
             THEN <<createError(path, "PATTERN_MISMATCH", value,
                        <<"string", "matching", "pattern:", "^https?://.+">>, <<>>)>>
             ELSE <<>>)
    ELSE <<>>

\* Validator.validateValue, the number constraints
numberErrors(value, schema, path) ==
    IF schema.type = "number" /\ value.k = "number"
    THEN (IF \E m \in schema.minimum : ~IsNaN(value) /\ value.n < m
          THEN LET m == CHOOSE m \in schema.minimum : TRUE
               IN <<createError(path, "MIN_VALUE_VIOLATION", value,
                        <<"number", ">=", ToString(m)>>, <<m>>)>>
          ELSE <<>>)
         \o (IF \E m \in schema.maximum : ~IsNaN(value) /\ value.n > m
             THEN LET m == CHOOSE m \in schema.maximum : TRUE
                  IN <<createError(path, "MAX_VALUE_VIOLATION", value,
                        <<"number", "<=", ToString(m)>>, <<m>>)>>
             ELSE <<>>)
    ELSE <<>>

\* a selection that lets a later alternative of equal score replace the best
LaterMatch(best, score, sub) ==
    IF score >= best.score
    THEN [score |-> score, e |-> sub.e, w |-> sub.w]
    ELSE best

\* bestMatchErrors, bestMatchWarnings and bestMatchScore after an alternative
\* that scored `score`
betterMatch(best, score, sub) ==
    IF best.score = -1 \/ score > best.score
    THEN [score |-> score, e |-> sub.e, w |-> sub.w]
    ELSE best

\* Validator.validateValue, the oneOf branch: the loop over the sorted
\* alternatives, from the i-th on, `best` being the best match so far
oneOfLoop(value, sortedSchemas, i, path, opts, best) ==
    IF i > Len(sortedSchemas) THEN Pushed(best.e, best.w)
    ELSE oneOfStep(value, sortedSchemas, i, path, opts, best,
                   validateValue(value, sortedSchemas[i], path, opts))

\* the body of that loop, `sub` being the errors and warnings of the i-th alternative
oneOfStep(value, sortedSchemas, i, path, opts, best, sub) ==
    IF sub.e = <<>> THEN Pushed(<<>>, sub.w)
    ELSE oneOfLoop(value, sortedSchemas, i + 1, path, opts,
                   betterMatch(best, calculateSchemaMatchScore(value, sortedSchemas[i], sub.e),
                               sub))

\* Validator.validateValue: what it pushes on `errors` and `warnings`
validateValue(value, schema, path, opts) ==
    IF schema.oneOf # <<>>
    THEN oneOfLoop(value, sortSchemasByLikelihood(schema.oneOf, value), 1, path, opts,
                   [score |-> -1, e |-> <<>>, w |-> <<>>])
    ELSE IF schema.type # "" /\ ~validateType(value, schema.type)
    THEN Pushed(<<createError(path, "TYPE_MISMATCH", value, <<schema.type>>, <<>>)>>, <<>>)
    ELSE IF schema.enum # <<>> /\ ~(value.k = "string" /\ Includes(schema.enum, value.s))
    THEN Pushed(<<createError(path, "ENUM_VALIDATION_FAILED", value,
                     <<"one", "of:">> \o schema.enum, <<>>)>>, <<>>)
    ELSE Both(Pushed(stringErrors(value, schema, path) \o numberErrors(value, schema, path),
                     <<>>),
              Both(IF schema.type = "object" /\ TypeOf(value) = "object" /\ value.k # "null"
                   THEN validateObject(value, schema, path, opts)
                   ELSE Pushed(<<>>, <<>>),
                   IF schema.type = "array" /\ IsArray(value)
                   THEN validateArray(value, schema, 1, path, opts)
                   ELSE Pushed(<<>>, <<>>)))

(***************************************************************************)
(* The domain-specific pass.  It works on the error and warning lists in   *)
(* place; here a step takes and returns the record st = [e, w, threw] of   *)
(* the two lists and of whether a TypeError has been thrown.               *)
(***************************************************************************)
\* obj.hasOwnProperty(...) throws when the document itself defines the key
\* `hasOwnProperty`: a JSON value is not callable
HasOwnPropertyThrows(obj) == obj.k = "object" /\ "hasOwnProperty" \in DOMAIN obj.o

\* Validator.isPartialDiagnostic
isPartialDiagnostic(obj) ==
    /\ obj.k = "object"
    /\ ~HasOwn(obj, "diagnostics")
    /\ \/ HasOwn(obj, "message")
       \/ HasOwn(obj, "location")
       \/ HasOwn(obj, "severity")
       \/ HasOwn(obj, "source")

\* Validator.isDiagnosticResult
isDiagnosticResult(obj) == obj.k = "object" /\ HasOwn(obj, "diagnostics")

\* errors.findIndex(e => e.path === path && e.code === code), then splice(index, 1)
RemoveFirst(errors, path, code) ==
    LET hits == {i \in 1..Len(errors) : errors[i].path = path /\ errors[i].code = code}
    IN IF hits = {} THEN errors
       ELSE LET first == CHOOSE i \in hits : \A j \in hits : i <= j
            IN SubSeq(errors, 1, first - 1) \o SubSeq(errors, first + 1, Len(errors))

\* replace the generic error at `path` by the specific one
Replace(st, path, generic, specific) ==
    [st EXCEPT !.e = Append(RemoveFirst(st.e, path, generic), specific)]

\* a position's `line` (respectively `column`) that is not a number of at least 1
BadCoordinate(v) == v.k # "number" \/ (~IsNaN(v) /\ v.n < 1)

\* Validator.addPositionSpecificValidation, the check of position.line
refineLine(position, path, st) ==
    IF BadCoordinate(Prop(position, "line"))
    THEN Replace(st, joinPath(path, <<"line">>), "MIN_VALUE_VIOLATION",
             createError(joinPath(path, <<"line">>), "INVALID_POSITION", Prop(position, "line"),
                 <<"positive", "integer", "(", "1-based", "line", "number", ")">>, <<>>))
    ELSE st

\* Validator.addPositionSpecificValidation, the check of position.column
refineColumn(position, path, st) ==
    IF Prop(position, "column").k # "undefined" /\ BadCoordinate(Prop(position, "column"))
    THEN Replace(st, joinPath(path, <<"column">>), "MIN_VALUE_VIOLATION",
             createError(joinPath(path, <<"column">>), "INVALID_POSITION",
                 Prop(position, "column"),
                 <<"positive", "integer", "(", "1-based", "column", "number", ")", "or",
                   "undefined">>, <<>>))
    ELSE st

\* Validator.addPositionSpecificValidation
addPositionSpecificValidation(position, path, st) ==
    refineColumn(position, path, refineLine(position, path, st))

\* Validator.addLocationSpecificValidation, the check of range.start
refineStart(range, path, st) ==
    IF ~Truthy(Prop(range, "start"))
    THEN Replace(st, joinPath(path, <<"range", ".", "start">>), "REQUIRED_PROPERTY_MISSING",
             createError(joinPath(path, <<"range", ".", "start">>), "INVALID_RANGE",
                 Prop(range, "start"),
                 <<"position", "object", "with", "line", "number">>, <<>>))
    ELSE addPositionSpecificValidation(Prop(range, "start"),
                                       joinPath(path, <<"range", ".", "start">>), st)

\* Validator.addLocationSpecificValidation, the check of range.end
refineEnd(range, path, st) ==
    IF Truthy(Prop(range, "end"))
    THEN addPositionSpecificValidation(Prop(range, "end"),
                                       joinPath(path, <<"range", ".", "end">>), st)
    ELSE st

\* Validator.addLocationSpecificValidation
addLocationSpecificValidation(location, path, st) ==
    IF Truthy(Prop(location, "range")) /\ TypeOf(Prop(location, "range")) = "object"
    THEN refineEnd(Prop(location, "range"), path,
                   refineStart(Prop(location, "range"), path, st))
    ELSE st

\* addRDFormatSpecificValidation, a single diagnostic without `message`
refineMessage(d, path, st) ==
    IF ~HasOwn(d, "message")
    THEN Replace(st, joinPath(path, <<"message">>), "REQUIRED_PROPERTY_MISSING",
             createError(joinPath(path, <<"message">>), "MISSING_DIAGNOSTIC_MESSAGE", Undef,
                 <<"string", "containing", "the", "diagnostic", "message">>, <<>>))
    ELSE st

\* addRDFormatSpecificValidation, a single diagnostic without `location`
refineLocation(d, path, st) ==
    IF ~HasOwn(d, "location")
    THEN Replace(st, joinPath(path, <<"location">>), "REQUIRED_PROPERTY_MISSING",
             createError(joinPath(path, <<"location">>), "MISSING_DIAGNOSTIC_LOCATION", Undef,
                 <<"object", "with", "path", "and", "optional", "range">>, <<>>))
    ELSE st

\* addRDFormatSpecificValidation, a single diagnostic whose location is an object
refineLocationFields(d, path, st) ==
    IF Truthy(Prop(d, "location")) /\ TypeOf(Prop(d, "location")) = "object"
    THEN addLocationSpecificValidation(Prop(d, "location"), joinPath(path, <<"location">>), st)
    ELSE st

\* addRDFormatSpecificValidation, a single diagnostic whose severity is not one
\* of the four
refineSeverity(d, path, st) ==
    IF Truthy(Prop(d, "severity"))
       /\ ~(Prop(d, "severity").k = "string" /\ Includes(severityEnum, Prop(d, "severity").s))
    THEN Replace(st, joinPath(path, <<"severity">>), "ENUM_VALIDATION_FAILED",
             createError(joinPath(path, <<"severity">>), "INVALID_SEVERITY",
                 Prop(d, "severity"), <<"one", "of:">> \o severityEnum, <<>>))
    ELSE st

\* Validator.addRDFormatSpecificValidation, the branch for a single diagnostic
refineDiagnostic(d, path, st) ==
    IF isPartialDiagnostic(d)
    THEN refineSeverity(d, path,
             refineLocationFields(d, path, refineLocation(d, path, refineMessage(d, path, st))))
    ELSE st

RECURSIVE addRDFormatSpecificValidation(_, _, _)
RECURSIVE refineArrayItems(_, _, _, _)
RECURSIVE refineResultItems(_, _, _, _)

\* addRDFormatSpecificValidation, the loop over the elements of a top-level
\* array, from the element of index i - 1 on
refineArrayItems(arr, i, path, st) ==
    IF st.threw \/ i > Len(arr.e) THEN st
    ELSE IF HasOwnPropertyThrows(arr.e[i]) THEN [st EXCEPT !.threw = TRUE]
    ELSE refineArrayItems(arr, i + 1, path,
            IF isPartialDiagnostic(arr.e[i])
            THEN addRDFormatSpecificValidation(arr.e[i], joinPath(path, <<ToString(i - 1)>>), st)
            ELSE st)

\* addRDFormatSpecificValidation, the loop over data.diagnostics
refineResultItems(diagnostics, i, path, st) ==
    IF st.threw \/ i > Len(diagnostics.e) THEN st
    ELSE refineResultItems(diagnostics, i + 1, path,
            addRDFormatSpecificValidation(diagnostics.e[i],
                joinPath(path, <<"diagnostics", "[", ToString(i - 1), "]">>), st))

\* addRDFormatSpecificValidation, the branch for an array of diagnostics
refineArray(d, path, st) == IF IsArray(d) THEN refineArrayItems(d, 1, path, st) ELSE st

\* addRDFormatSpecificValidation, the branch for a diagnostic result: its
\* diagnostics
refineResult(d, path, st) ==
    IF isDiagnosticResult(d) /\ IsArray(Prop(d, "diagnostics"))
    THEN refineResultItems(Prop(d, "diagnostics"), 1, path, st)
    ELSE st

\* the refinement pass without the warning for an empty diagnostics array
NoEmptyArrayWarning(d, path, st) == st

\* addRDFormatSpecificValidation, the branch for a diagnostic result: the
\* warning for an empty diagnostics array
warnEmptyDiagnostics(d, path, st) ==
    IF ~st.threw /\ isDiagnosticResult(d) /\ IsArray(Prop(d, "diagnostics"))
       /\ Len(Prop(d, "diagnostics").e) = 0
    THEN [st EXCEPT !.w = Append(@, createWarning(joinPath(path, <<"diagnostics">>),
                                                  "EMPTY_ARRAY"))]
    ELSE st

\* Validator.addRDFormatSpecificValidation
addRDFormatSpecificValidation(d, path, st) ==
    IF st.threw THEN st
    ELSE IF HasOwnPropertyThrows(d) THEN [st EXCEPT !.threw = TRUE]
    ELSE warnEmptyDiagnostics(d, path,
             refineResult(d, path, refineArray(d, path, refineDiagnostic(d, path, st))))

\* a result that is valid only without warnings
ValidWithoutWarnings(errors, warnings) ==
    [valid |-> Len(errors) = 0 /\ Len(warnings) = 0, errors |-> errors,
     warnings |-> warnings, threw |-> FALSE]

\* a returned ValidationResult; threw: the call ended in a TypeError instead
ValidationResult(errors, warnings) ==
    [valid |-> Len(errors) = 0, errors |-> errors, warnings |-> warnings, threw |-> FALSE]

\* the two lists after the schema pass, no TypeError thrown
Lists(pushed) == [e |-> pushed.e, w |-> pushed.w, threw |-> FALSE]

\* what the call returns with the two lists in st
Returned(st) ==
    IF st.threw THEN [valid |-> FALSE, errors |-> <<>>, warnings |-> <<>>, threw |-> TRUE]
    ELSE ValidationResult(st.e, st.w)

\* input-shape checks that let an empty object, string or array through
NullInputOnly(d) ==
    IF d.k \in {"null", "undefined"}
    THEN <<createError(<<>>, "NULL_INPUT", d, <<"valid", "RDFormat", "data">>, <<>>)>>
    ELSE <<>>

\* Validator.validate, the checks of the shape of the input: the error of an
\* input that is rejected before the schema is consulted
inputShapeError(d) ==
    IF d.k \in {"null", "undefined"}
    THEN <<createError(<<>>, "NULL_INPUT", d, <<"valid", "RDFormat", "data">>, <<>>)>>
    ELSE IF d.k = "string" /\ IsBlank(d.s)
    THEN <<createError(<<>>, "EMPTY_INPUT", d, <<"non-empty", "RDFormat", "data">>, <<>>)>>
    ELSE IF TypeOf(d) = "object" /\ ~IsArray(d) /\ Len(Keys(d)) = 0
    THEN <<createError(<<>>, "EMPTY_INPUT", d, <<"non-empty", "RDFormat", "object">>, <<>>)>>
    ELSE IF IsArray(d) /\ Len(d.e) = 0
    THEN <<createError(<<>>, "EMPTY_ARRAY", d, <<"non-empty", "array", "of", "diagnostics">>, <<>>)>>
    ELSE <<>>

\* Validator.validate with the shared oneOf array in `order`
validate(d, order, opts) ==
    IF inputShapeError(d) # <<>>
    THEN [valid |-> FALSE, errors |-> inputShapeError(d), warnings |-> <<>>, threw |-> FALSE]
    ELSE Returned(addRDFormatSpecificValidation(d, <<>>,
             Lists(validateValue(d, rdformatSchema(order), <<>>, opts))))

\* the titles of a sequence of schemas
TitlesOf(schemas) == [i \in 1..Len(schemas) |-> schemas[i].title]

\* the order in which sortSchemasByLikelihood leaves the shared oneOf array
orderAfterSort(value, order) ==
    TitlesOf(sortSchemasByLikelihood(rdformatSchema(order).oneOf, value))

\* the order in which validate leaves the shared oneOf array
orderAfterValidate(d, order) ==
    IF inputShapeError(d) # <<>> THEN order ELSE orderAfterSort(d, order)

\* Validator.validateField
validateField(path, value, schema, opts) ==
    Returned(Lists(validateValue(value, schema, path, opts)))

(***************************************************************************)
(* The heap.  The fixer works on object graphs in place, so the documents  *)
(* it is given and the one it returns live in a heap: a sequence of        *)
(* containers (objects and arrays) whose properties and elements are       *)
(* scalars or references Ref(a) to the container at address a.             *)
(***************************************************************************)
RECURSIVE Store(_, _)
RECURSIVE StoreAll(_, _, _)

\* store the values vs[i..] one after the other: the heap and the stored values
StoreAll(h, vs, i) ==
    IF i > Len(vs) THEN [h |-> h, vs |-> <<>>]
    ELSE LET first == Store(h, vs[i])
             rest == StoreAll(first.h, vs, i + 1)
         IN [h |-> rest.h, vs |-> <<first.v>> \o rest.vs]

\* the object graph of the document `tree`, built in the heap h
Store(h, tree) ==
    IF tree.k \notin {"object", "array"} THEN [h |-> h, v |-> tree]
    ELSE LET props == StoreAll(h, [i \in 1..Len(tree.ks) |-> tree.o[tree.ks[i]]], 1)
             elems == StoreAll(props.h, tree.e, 1)
             node == [tree EXCEPT
                         !.o = [key \in DOMAIN tree.o |->
                                   props.vs[CHOOSE i \in 1..Len(tree.ks) : tree.ks[i] = key]],
                         !.e = elems.vs]
         IN [h |-> Append(elems.h, node), v |-> Ref(Len(elems.h) + 1)]

\* the container or scalar that v denotes
Target(h, v) == IF v.k = "ref" THEN h[v.n] ELSE v

RECURSIVE Deref(_, _)
\* the document that v denotes in the heap h, as a tree
Deref(h, v) ==
    IF v.k # "ref" THEN v
    ELSE LET node == h[v.n]
         IN [node EXCEPT !.o = [key \in DOMAIN node.o |-> Deref(h, node.o[key])],
                         !.e = [i \in 1..Len(node.e) |-> Deref(h, node.e[i])]]

RECURSIVE Reach(_, _)
\* the addresses of the containers of the object graph of v
Reach(h, v) ==
    IF v.k # "ref" THEN {}
    ELSE LET node == h[v.n]
         IN {v.n}
            \cup UNION {Reach(h, node.o[key]) : key \in DOMAIN node.o}
            \cup UNION {Reach(h, node.e[i]) : i \in 1..Len(node.e)}

\* node[key] = value
SetProp(node, key, value) ==
    IF node.k = "array" /\ IsDigits(key)
    THEN LET idx == DigitsValue(key) + 1
         IN [node EXCEPT !.e = [i \in 1..Max(Len(node.e), idx) |->
                                   IF i = idx THEN value
                                   ELSE IF i <= Len(node.e) THEN node.e[i] ELSE Undef]]
    ELSE IF key \in DOMAIN node.o
    THEN [node EXCEPT !.o[key] = value]
    ELSE LET numeric == SelectSeq(node.ks, LAMBDA x : IsDigits(x))
             named == SelectSeq(node.ks, LAMBDA x : ~IsDigits(x))
             keys == IF IsDigits(key) /\ node.k = "object"
                     THEN SelectSeq(numeric, LAMBDA x : DigitsValue(x) < DigitsValue(key))
                          \o <<key>>
                          \o SelectSeq(numeric, LAMBDA x : DigitsValue(x) > DigitsValue(key))
                          \o named
                     ELSE Append(node.ks, key)
         IN [node EXCEPT !.ks = keys, !.o = (key :> value) @@ node.o]

(***************************************************************************)
(* The fixer (src/unnamed/part_006).                                       *)
(***************************************************************************)
\* Fixer.parsePath: path.split(/[.[\]]/).filter(part => part !== '')
parsePath(path) == SelectSeq(path, LAMBDA t : t \notin {".", "[", "]"})

RECURSIVE getValueFrom(_, _, _, _)
getValueFrom(h, current, pathParts, i) ==
    IF i > Len(pathParts) THEN current
    ELSE IF current.k \in {"null", "undefined"} THEN Undef
    ELSE getValueFrom(h, Prop(Target(h, current), pathParts[i]), pathParts, i + 1)

\* Fixer.getValueAtPath
getValueAtPath(h, obj, pathParts) == getValueFrom(h, obj, pathParts, 1)

RECURSIVE setValueFrom(_, _, _, _, _)
\* Fixer.setValueAtPath from the i-th part on; a property of null or undefined
\* cannot be read, and (the class being strict-mode code) a property of a
\* string, number or boolean cannot be assigned: both throw a TypeError
setValueFrom(h, current, pathParts, i, value) ==
    IF current.k # "ref" THEN [h |-> h, threw |-> TRUE]
    ELSE IF i = Len(pathParts)
    THEN [h |-> [h EXCEPT ![current.n] = SetProp(@, pathParts[i], value)], threw |-> FALSE]
    ELSE IF Prop(h[current.n], pathParts[i]).k \in {"undefined", "null"}
    THEN setValueFrom([Append(h, IF IsDigits(pathParts[i + 1]) THEN Arr(<<>>)
                                 ELSE EmptyObject)
                          EXCEPT ![current.n] = SetProp(@, pathParts[i], Ref(Len(h) + 1))],
                      Ref(Len(h) + 1), pathParts, i + 1, value)
    ELSE setValueFrom(h, Prop(h[current.n], pathParts[i]), pathParts, i + 1, value)

\* a setValueAtPath that creates no intermediate container and fails silently
\* where one is missing
SetWithoutCreating(h, obj, pathParts, value) ==
    IF Len(pathParts) = 0
       \/ getValueAtPath(h, obj, SubSeq(pathParts, 1, Len(pathParts) - 1)).k # "ref"
    THEN [h |-> h, threw |-> FALSE]
    ELSE [h |-> [h EXCEPT ![getValueAtPath(h, obj, SubSeq(pathParts, 1, Len(pathParts) - 1)).n] =
                     SetProp(@, pathParts[Len(pathParts)], value)],
          threw |-> FALSE]

\* Fixer.setValueAtPath
setValueAtPath(h, obj, pathParts, value) ==
    IF Len(pathParts) = 0 THEN [h |-> h, threw |-> FALSE]
    ELSE setValueFrom(h, obj, pathParts, 1, value)

RECURSIVE deepClone(_, _)
RECURSIVE deepCloneAll(_, _, _)

\* a clone that is no clone: the object itself
SameObject(h, obj) == [h |-> h, v |-> obj]

deepCloneAll(h, vs, i) ==
    IF i > Len(vs) THEN [h |-> h, vs |-> <<>>]
    ELSE LET first == deepClone(h, vs[i])
             rest == deepCloneAll(first.h, vs, i + 1)
         IN [h |-> rest.h, vs |-> <<first.v>> \o rest.vs]

\* Fixer.deepClone: the heap with the copy in it, and the copy
deepClone(h, obj) ==
    IF obj.k # "ref" THEN [h |-> h, v |-> obj]
    ELSE LET node == h[obj.n]
             elems == deepCloneAll(h, node.e, 1)
             props == deepCloneAll(h, [i \in 1..Len(node.ks) |-> node.o[node.ks[i]]], 1)
         IN IF node.k = "array"
            THEN [h |-> Append(elems.h, Arr(elems.vs)), v |-> Ref(Len(elems.h) + 1)]
            ELSE [h |-> Append(props.h,
                            Obj(node.ks, [key \in DOMAIN node.o |->
                                props.vs[CHOOSE i \in 1..Len(node.ks) : node.ks[i] = key]])),
                  v |-> Ref(Len(props.h) + 1)]

\* Fixer.extractExpectedType
extractExpectedType(expected) ==
    IF Includes(expected, "string") THEN "string"
    ELSE IF Includes(expected, "number") THEN "number"
    ELSE IF Includes(expected, "boolean") THEN "boolean"
    ELSE IF Includes(expected, "array") THEN "array"
    ELSE IF Includes(expected, "object") THEN "object"
    ELSE "unknown"

\* Fixer.canFixTypeMismatch
canFixTypeMismatch(error) ==
    LET expectedType == extractExpectedType(error.expected)
        currentValue == error.value
    IN CASE expectedType = "string" ->
                currentValue.k \in {"number", "boolean", "null", "undefined"}
         [] expectedType = "number" ->
                \/ currentValue.k = "string" /\ IsNumeric(currentValue.s)
                \/ currentValue.k = "boolean"
         [] expectedType = "boolean" -> currentValue.k \in {"string", "number"}
         [] expectedType = "array" -> currentValue.k \notin {"array", "null", "undefined"}
         [] expectedType = "object" -> TypeOf(currentValue) # "object" \/ IsArray(currentValue)
         [] OTHER -> FALSE

\* Fixer.canFixMissingProperty
canFixMissingProperty(error) ==
    LET pathParts == parsePath(error.path)
        named == Len(pathParts) > 0
                 /\ pathParts[Len(pathParts)] \in
                        {"message", "location", "path", "line", "column", "severity",
                         "diagnostics", "name"}
    IN \/ named
       \/ Includes(error.expected, "string")
       \/ Includes(error.expected, "number")
       \/ Includes(error.expected, "array")
       \/ Includes(error.expected, "object")

\* a canFix that accepts at every level what the aggressive level accepts
CanFixAtAnyLevel(error, level) ==
    CASE error.code = "TYPE_MISMATCH" -> canFixTypeMismatch(error)
      [] error.code = "REQUIRED_PROPERTY_MISSING" -> canFixMissingProperty(error)
      [] error.code \in {"EMPTY_STRING", "MIN_VALUE_VIOLATION", "MAX_VALUE_VIOLATION",
                         "MISSING_DIAGNOSTIC_MESSAGE", "MISSING_DIAGNOSTIC_LOCATION",
                         "INVALID_SEVERITY", "INVALID_POSITION"} -> TRUE
      [] OTHER -> FALSE

\* Fixer.canFix
canFix(error, level) ==
    CASE error.code = "TYPE_MISMATCH" -> canFixTypeMismatch(error)
      [] error.code = "REQUIRED_PROPERTY_MISSING" -> canFixMissingProperty(error)
      [] error.code = "EMPTY_STRING" -> level = "aggressive"
      [] error.code \in {"MIN_VALUE_VIOLATION", "MAX_VALUE_VIOLATION"} -> level = "aggressive"
      [] error.code \in {"MISSING_DIAGNOSTIC_MESSAGE", "MISSING_DIAGNOSTIC_LOCATION"} -> TRUE
      [] error.code = "INVALID_SEVERITY" -> TRUE
      [] error.code = "INVALID_POSITION" -> level = "aggressive"
      [] OTHER -> FALSE

\* the kind of the value that v denotes
Kind(h, v) == Target(h, v).k

RECURSIVE Text(_, _)
RECURSIVE Join(_, _, _)

\* elems.join(','), from the i-th element on
Join(h, elems, i) ==
    IF i > Len(elems) THEN ""
    ELSE (IF elems[i].k \in {"null", "undefined"} THEN "" ELSE Text(h, elems[i]))
         \o (IF i < Len(elems) THEN "," ELSE "")
         \o Join(h, elems, i + 1)

\* String(v), `${v}`
Text(h, v) ==
    CASE v.k = "undefined" -> "undefined"
      [] v.k = "null" -> "null"
      [] v.k = "boolean" -> IF v.n = 1 THEN "true" ELSE "false"
      [] v.k = "number" -> IF IsNaN(v) THEN "NaN" ELSE ToString(v.n)
      [] v.k = "string" -> v.s
      [] v.k = "ref" -> IF h[v.n].k = "array" THEN Join(h, h[v.n].e, 1)
                        ELSE "[object Object]"

\* Number(v), the conversion Math.max and Math.min apply to an argument
ToNumber(h, v) ==
    LET text == Text(h, v)
    IN CASE v.k = "number" -> v
         [] v.k = "boolean" -> Num(v.n)
         [] v.k = "null" -> Num(0)
         [] v.k = "string" -> IF IsNumeric(v.s) THEN Num(NumberOf(v.s)) ELSE NaN
         [] v.k = "ref" ->
                IF h[v.n].k = "array" /\ IsNumeric(text) THEN Num(NumberOf(text)) ELSE NaN
         [] OTHER -> NaN

\* what a fix method hands back: the heap, the value it returns (undefined
\* when it repaired nothing) and whether it ended in a TypeError
Fixed(set, after) == [h |-> set.h, after |-> after, threw |-> set.threw]

NotFixed(h) == [h |-> h, after |-> Undef, threw |-> FALSE]

\* fixedValue of fixTypeMismatch where it is a string, a number or a boolean;
\* undefined where the method has none of these
coerced(expectedType, currentValue) ==
    CASE expectedType = "string" /\ currentValue.k \in {"number", "boolean"} ->
            Str(Text(<<>>, currentValue))
      [] expectedType = "string" /\ currentValue.k \in {"null", "undefined"} -> Str("")
      [] expectedType = "number" /\ currentValue.k = "string" /\ IsNumeric(currentValue.s) ->
            Num(NumberOf(currentValue.s))
      [] expectedType = "number" /\ currentValue.k = "boolean" -> Num(currentValue.n)
      [] expectedType = "boolean" /\ currentValue.k = "string" ->
            Bool(ToLowerCase(currentValue.s) = "true")
      [] expectedType = "boolean" /\ currentValue.k = "number" ->
            Bool(IsNaN(currentValue) \/ currentValue.n # 0)
      [] OTHER -> Undef

\* this.setValueAtPath(data, pathParts, fixedValue); return fixedValue
SetAndReturn(h, data, pathParts, fixedValue) ==
    Fixed(setValueAtPath(h, data, pathParts, fixedValue), fixedValue)

\* the same with a fixedValue that is the new object or array `node`
SetAndReturnNew(h, data, pathParts, node) ==
    SetAndReturn(Append(h, node), data, pathParts, Ref(Len(h) + 1))

\* Fixer.fixTypeMismatch with the value found at the path
fixTypeMismatchOf(h, data, pathParts, expectedType, currentValue) ==
    IF expectedType = "array" /\ Kind(h, currentValue) \notin {"array", "null", "undefined"}
    THEN SetAndReturnNew(h, data, pathParts, Arr(<<currentValue>>))
    ELSE IF expectedType = "object"
            /\ Kind(h, currentValue) \in {"undefined", "boolean", "number", "string", "array"}
    THEN SetAndReturnNew(h, data, pathParts, EmptyObject)
    ELSE IF expectedType \in {"string", "number", "boolean"}
            /\ coerced(expectedType, currentValue).k # "undefined"
    THEN SetAndReturn(h, data, pathParts, coerced(expectedType, currentValue))
    ELSE NotFixed(h)

\* Fixer.fixTypeMismatch
fixTypeMismatch(h, data, pathParts, error) ==
    fixTypeMismatchOf(h, data, pathParts, extractExpectedType(error.expected),
                      getValueAtPath(h, data, pathParts))

\* pathParts[pathParts.length - 1]; the empty string stands for undefined
LastPart(pathParts) == IF pathParts = <<>> THEN "" ELSE pathParts[Len(pathParts)]

\* Fixer.fixMissingProperty with the name of the property
fixMissingPropertyOf(h, data, pathParts, error, propertyName) ==
    CASE propertyName = "message" -> SetAndReturn(h, data, pathParts, Str("No message provided"))
      [] propertyName = "location" ->
            SetAndReturnNew(h, data, pathParts, Obj1("path", Str("unknown")))
      [] propertyName \in {"path", "name"} -> SetAndReturn(h, data, pathParts, Str("unknown"))
      [] propertyName \in {"line", "column"} -> SetAndReturn(h, data, pathParts, Num(1))
      [] propertyName = "severity" -> SetAndReturn(h, data, pathParts, Str("UNKNOWN_SEVERITY"))
      [] propertyName = "diagnostics" -> SetAndReturnNew(h, data, pathParts, Arr(<<>>))
      [] OTHER ->
            IF Includes(error.expected, "string") THEN SetAndReturn(h, data, pathParts, Str(""))
            ELSE IF Includes(error.expected, "number")
            THEN SetAndReturn(h, data, pathParts, Num(0))
            ELSE IF Includes(error.expected, "array")
            THEN SetAndReturnNew(h, data, pathParts, Arr(<<>>))
            ELSE IF Includes(error.expected, "object")
            THEN SetAndReturnNew(h, data, pathParts, EmptyObject)
            ELSE NotFixed(h)

\* Fixer.fixMissingProperty
fixMissingProperty(h, data, pathParts, error) ==
    fixMissingPropertyOf(h, data, pathParts, error, LastPart(pathParts))

\* Fixer.fixEmptyString
fixEmptyString(h, data, pathParts, level) ==
    IF level # "aggressive" THEN NotFixed(h)
    ELSE SetAndReturn(h, data, pathParts,
                      IF LastPart(pathParts) = "message" THEN Str("No message provided")
                      ELSE Str("unknown"))

\* the number that /at least (\d+)/ or /at most (\d+)/ finds in the message of
\* the error, where the validator wrote the constraint: none if it is negative
WrittenBound(error, default) ==
    IF error.constraint # <<>> /\ error.constraint[1] >= 0 THEN error.constraint[1]
    ELSE default

\* Fixer.fixNumberViolation
fixNumberViolation(h, data, pathParts, error, level) ==
    IF level # "aggressive" THEN NotFixed(h)
    ELSE IF IsNaN(ToNumber(h, getValueAtPath(h, data, pathParts)))
    THEN SetAndReturn(h, data, pathParts, NaN)
    ELSE IF error.code = "MIN_VALUE_VIOLATION"
    THEN SetAndReturn(h, data, pathParts,
             Num(Max(ToNumber(h, getValueAtPath(h, data, pathParts)).n,
                     WrittenBound(error, 1))))
    ELSE SetAndReturn(h, data, pathParts,
             Num(IF ToNumber(h, getValueAtPath(h, data, pathParts)).n <= WrittenBound(error, 1000)
                 THEN ToNumber(h, getValueAtPath(h, data, pathParts)).n
                 ELSE WrittenBound(error, 1000)))

\* a severity fix that compares the value as it is written
CaseSensitiveSeverity(currentValue) ==
    IF currentValue.k # "string" THEN Str("UNKNOWN_SEVERITY")
    ELSE IF currentValue.s \in {"error", "err", "fatal"} THEN Str("ERROR")
    ELSE IF currentValue.s \in {"warning", "warn", "caution"} THEN Str("WARNING")
    ELSE IF currentValue.s \in {"info", "information", "note"} THEN Str("INFO")
    ELSE Str("UNKNOWN_SEVERITY")

\* fixedValue of fixInvalidSeverity
normalizedSeverity(currentValue) ==
    IF currentValue.k # "string" THEN Str("UNKNOWN_SEVERITY")
    ELSE IF ToLowerCase(currentValue.s) \in {"error", "err", "fatal"} THEN Str("ERROR")
    ELSE IF ToLowerCase(currentValue.s) \in {"warning", "warn", "caution"} THEN Str("WARNING")
    ELSE IF ToLowerCase(currentValue.s) \in {"info", "information", "note"} THEN Str("INFO")
    ELSE Str("UNKNOWN_SEVERITY")

\* Fixer.fixInvalidSeverity
fixInvalidSeverity(h, data, pathParts) ==
    SetAndReturn(h, data, pathParts, normalizedSeverity(getValueAtPath(h, data, pathParts)))

\* Fixer.fixInvalidPosition
fixInvalidPosition(h, data, pathParts, level) ==
    IF level # "aggressive" \/ LastPart(pathParts) \notin {"line", "column"} THEN NotFixed(h)
    ELSE IF getValueAtPath(h, data, pathParts).k = "number"
            /\ (IsNaN(getValueAtPath(h, data, pathParts))
                \/ getValueAtPath(h, data, pathParts).n >= 1) THEN NotFixed(h)
    ELSE SetAndReturn(h, data, pathParts, Num(1))

\* Fixer.getFixMessage, the text as its parts
getFixMessage(h, code, before, after) ==
    CASE code = "TYPE_MISMATCH" ->
            <<"Converted", TypeOf(Target(h, before)), "value", Text(h, before), "to",
              TypeOf(Target(h, after)), Text(h, after)>>
      [] code \in {"REQUIRED_PROPERTY_MISSING", "MISSING_DIAGNOSTIC_MESSAGE",
                   "MISSING_DIAGNOSTIC_LOCATION"} ->
            <<"Added missing property with default value", Text(h, after)>>
      [] code = "EMPTY_STRING" ->
            <<"Replaced empty string with default value", Text(h, after)>>
      [] code = "MIN_VALUE_VIOLATION" ->
            <<"Adjusted value from", Text(h, before), "to minimum allowed value",
              Text(h, after)>>
      [] code = "MAX_VALUE_VIOLATION" ->
            <<"Adjusted value from", Text(h, before), "to maximum allowed value",
              Text(h, after)>>
      [] code = "INVALID_SEVERITY" ->
            <<"Normalized severity from", Text(h, before), "to", Text(h, after)>>
      [] code = "INVALID_POSITION" ->
            <<"Fixed invalid position value from", Text(h, before), "to", Text(h, after)>>
      [] OTHER -> <<"Fixed value from", Text(h, before), "to", Text(h, after)>>

\* what applyFix hands back: the heap, the AppliedFix if there is one (null
\* otherwise), and whether the call ended in a TypeError
NotApplied(h, threw) == [h |-> h, applied |-> <<>>, threw |-> threw]

\* Fixer.applyFix, the switch over error.code
dispatchFix(h, data, pathParts, error, level) ==
    CASE error.code = "TYPE_MISMATCH" -> fixTypeMismatch(h, data, pathParts, error)
      [] error.code \in {"REQUIRED_PROPERTY_MISSING", "MISSING_DIAGNOSTIC_MESSAGE",
                         "MISSING_DIAGNOSTIC_LOCATION"} ->
            fixMissingProperty(h, data, pathParts, error)
      [] error.code = "EMPTY_STRING" -> fixEmptyString(h, data, pathParts, level)
      [] error.code \in {"MIN_VALUE_VIOLATION", "MAX_VALUE_VIOLATION"} ->
            fixNumberViolation(h, data, pathParts, error, level)
      [] error.code = "INVALID_SEVERITY" -> fixInvalidSeverity(h, data, pathParts)
      [] error.code = "INVALID_POSITION" -> fixInvalidPosition(h, data, pathParts, level)
      [] OTHER -> NotFixed(h)

\* an applyFix that records the repair at a path below the repaired one
RecordedBelow(error, before, done) ==
    IF done.threw THEN NotApplied(done.h, TRUE)
    ELSE IF done.after.k = "undefined" THEN NotApplied(done.h, FALSE)
    ELSE [h |-> done.h,
          applied |-> <<[path |-> error.path \o <<".", "value">>,
                         message |-> getFixMessage(done.h, error.code, before, done.after),
                         before |-> before,
                         after |-> done.after]>>,
          threw |-> FALSE]

\* Fixer.applyFix, what follows the switch: `done` is what the fix method
\* handed back
appliedFix(error, before, done) ==
    IF done.threw THEN NotApplied(done.h, TRUE)
    ELSE IF done.after.k = "undefined" THEN NotApplied(done.h, FALSE)
    ELSE [h |-> done.h,
          applied |-> <<[path |-> error.path,
                         message |-> getFixMessage(done.h, error.code, before, done.after),
                         before |-> before,
                         after |-> done.after]>>,
          threw |-> FALSE]

\* Fixer.applyFix
applyFix(h, data, error, level) ==
    IF ~canFix(error, level) THEN NotApplied(h, FALSE)
    ELSE appliedFix(error, getValueAtPath(h, data, parsePath(error.path)),
                    dispatchFix(h, data, parsePath(error.path), error, level))

\* a returned FixResult; threw: the call ended in a TypeError instead
FixResult(data, appliedFixes, remainingErrors) ==
    [fixed |-> Len(appliedFixes) > 0, data |-> data, appliedFixes |-> appliedFixes,
     remainingErrors |-> remainingErrors, threw |-> FALSE]

FixThrown == [fixed |-> FALSE, data |-> Undef, appliedFixes |-> <<>>,
              remainingErrors |-> <<>>, threw |-> TRUE]

RECURSIVE fixLoop(_, _, _, _, _, _, _)
RECURSIVE fixStep(_, _, _, _, _, _, _)

\* Fixer.fix, the loop over validationResult.errors from the i-th error on
fixLoop(h, fixedData, errors, i, level, appliedFixes, remainingErrors) ==
    IF i > Len(errors)
    THEN [h |-> h, result |-> FixResult(fixedData, appliedFixes, remainingErrors)]
    ELSE fixStep(applyFix(h, fixedData, errors[i], level), fixedData, errors, i, level,
                 appliedFixes, remainingErrors)

\* a loop body that puts an error that was not repaired in front of the
\* remaining ones
PrependRemaining(fixResult, fixedData, errors, i, level, appliedFixes, remainingErrors) ==
    IF fixResult.threw THEN [h |-> fixResult.h, result |-> FixThrown]
    ELSE IF fixResult.applied # <<>>
    THEN fixLoop(fixResult.h, fixedData, errors, i + 1, level,
                 appliedFixes \o fixResult.applied, remainingErrors)
    ELSE fixLoop(fixResult.h, fixedData, errors, i + 1, level,
                 appliedFixes, <<errors[i]>> \o remainingErrors)

\* the body of that loop, fixResult being what applyFix handed back
fixStep(fixResult, fixedData, errors, i, level, appliedFixes, remainingErrors) ==
    IF fixResult.threw THEN [h |-> fixResult.h, result |-> FixThrown]
    ELSE IF fixResult.applied # <<>>
    THEN fixLoop(fixResult.h, fixedData, errors, i + 1, level,
                 appliedFixes \o fixResult.applied, remainingErrors)
    ELSE fixLoop(fixResult.h, fixedData, errors, i + 1, level,
                 appliedFixes, Append(remainingErrors, errors[i]))

\* Fixer.fix with the clone of the data
fixClone(fixedData, validationResult, level) ==
    fixLoop(fixedData.h, fixedData.v, validationResult.errors, 1, level, <<>>, <<>>)

\* Fixer.fix: the heap after the call and what the call returns
fix(h, data, validationResult, level) ==
    fixClone(deepClone(h, data), validationResult, level)

(***************************************************************************)
(* The documents the model feeds to the validator and the fixer.           *)
(***************************************************************************)
\* marks a property that an enumerated object does not have
Absent == [k |-> "absent", s |-> "", n |-> 0, ks |-> <<>>, o |-> NoProps, e |-> <<>>]

\* the object with the given <<key, value>> pairs, without the absent ones
MkObj(pairs) ==
    LET present == SelectSeq(pairs, LAMBDA p : p[2] # Absent)
    IN Obj([i \in 1..Len(present) |-> present[i][1]],
           [key \in {present[i][1] : i \in 1..Len(present)} |->
               present[CHOOSE i \in 1..Len(present) : present[i][1] = key][2]])

Positions ==
    {Obj1("line", Num(n)) : n \in 0..MaxLine}
    \cup {Obj1("line", Str("5")), Obj1("line", Str("x")), EmptyObject,
          Obj2("line", Num(1), "column", Num(0)), Obj2("line", Num(1), "column", Num(1)),
          Str("x")}

Ranges ==
    {Obj1("start", p) : p \in Positions}
    \cup {EmptyObject, Obj2("start", Obj1("line", Num(1)), "end", Obj1("line", Num(0))),
          Obj1("end", Obj1("line", Num(1)))}

Locations ==
    {Obj2("path", Str("a"), "range", r) : r \in Ranges}
    \cup {Obj1("path", Str("a")), Obj1("path", Str("")), Obj1("path", Num(1)), EmptyObject,
          Obj1("range", Obj1("start", Obj1("line", Num(1)))), Str("x"), Null,
          Arr(<<>>)}

\* values of `severity`: a member of the enum, the nine words the fixer knows,
\* one of them capitalized, another string and a number
Severities ==
    {Str("ERROR"), Str("error"), Str("err"), Str("fatal"), Str("warning"), Str("warn"),
     Str("Warn"), Str("caution"), Str("info"), Str("information"), Str("note"),
     Str("bad"), Num(5)}

\* objects with the keys of a diagnostic
Diagnostics ==
    {MkObj(<<<<"message", m>>, <<"location", l>>, <<"severity", v>>>>) :
        m \in {Str("x"), Str(""), Num(1), Absent}, l \in Locations \cup {Absent},
        v \in {Str("error"), Absent}}
    \cup {MkObj(<<<<"message", m>>, <<"location", l>>, <<"severity", v>>>>) :
            m \in {Str("x"), Absent}, l \in {Obj1("path", Str("a")), Absent},
            v \in Severities}
    \cup {Obj2("message", Str(" "), "location", Obj1("path", p)) : p \in {Str("a"), Str(" ")}}

ValidDiagnostic == Obj2("message", Str("x"), "location", Obj1("path", Str("a")))

\* diagnostics with a further property: a source, an undeclared property, a
\* property named like a method of Object.prototype, a `diagnostics` property,
\* suggestions that lack a required property
DecoratedDiagnostics ==
    {MkObj(<<<<"message", m>>, <<"location", l>>, <<extra[1], extra[2]>>>>) :
        m \in {Str("x"), Absent}, l \in {Obj1("path", Str("a")), Absent},
        extra \in {<<"source", Obj1("name", Str("s"))>>, <<"source", EmptyObject>>,
                   <<"source", Obj2("name", Str("s"), "url", Str("x"))>>,
                   <<"foo", Num(1)>>, <<"hasOwnProperty", Num(1)>>,
                   <<"diagnostics", Arr(<<>>)>>, <<"diagnostics", Arr(<<ValidDiagnostic>>)>>,
                   <<"diagnostics", Str("x")>>,
                   <<"diagnostics", Arr(<<Obj1("message", Str("x"))>>)>>,
                   <<"suggestions", Arr(<<Obj1("range", Obj1("start", Obj1("line", Num(1))))>>)>>,
                   <<"suggestions", Arr(<<Obj1("text", Str("x"))>>)>>}}

\* the elements of the enumerated arrays
Items ==
    {ValidDiagnostic, Obj1("message", Str("x")), Obj1("severity", Str("error")),
     Obj2("message", Num(1), "location", Obj1("path", Str("a"))),
     Obj2("message", Str("x"), "location",
          Obj2("path", Str("a"), "range", Obj1("start", Obj1("line", Str("5"))))),
     Num(5)}

RECURSIVE SeqsUpTo(_, _)
\* the sequences over S of length 0..n
SeqsUpTo(S, n) ==
    IF n = 0 THEN {<<>>}
    ELSE LET shorter == SeqsUpTo(S, n - 1)
         IN shorter \cup {Append(q, x) : q \in shorter, x \in S}

Arrays == {Arr(q) : q \in SeqsUpTo(Items, MaxItems)}

\* objects with the keys of a diagnostic result
Results ==
    {MkObj(<<<<"diagnostics", d>>, <<"severity", v>>, <<"source", src>>>>) :
        d \in {Arr(q) : q \in SeqsUpTo({ValidDiagnostic, Obj1("severity", Str("error")), Num(5)},
                                        MaxItems)}
              \cup {Str("x"), Null, EmptyObject},
        v \in {Absent, Str("ERROR"), Str("error")},
        src \in {Absent, EmptyObject}}
    \cup {MkObj(<<<<"diagnostics", Arr(<<>>)>>, <<"severity", v>>,
                 <<"source", Obj1("name", Str("s"))>>>>) : v \in {Absent, Str("ERROR")}}

Docs ==
    {Null, Undef, Bool(TRUE), Num(5), Str("x"), Str(""), Str(" ")}
    \cup Diagnostics \cup DecoratedDiagnostics \cup Arrays \cup Results

\* what the caller holds when no call has returned
NoResult == [valid |-> FALSE, errors |-> <<>>, warnings |-> <<>>, threw |-> FALSE]

NoFixResult == [fixed |-> FALSE, data |-> Undef, appliedFixes |-> <<>>, remainingErrors |-> <<>>,
                threw |-> FALSE]

\* the validated document is not the output of a fix
NoRerun == [passes |-> 0, level |-> "basic", resolved |-> FALSE]

(***************************************************************************)
(* The facade (src/dist/index.js): RDFormatValidator.validateObject, whose *)
(* validator and fixer are a Validator and a Fixer as above.               *)
(***************************************************************************)
\* RDFormatValidator.validateObject, its catch clause
unexpectedError(d) ==
    [valid |-> FALSE, errors |-> <<createError(<<>>, "UNEXPECTED_ERROR", d, <<>>, <<>>)>>,
     warnings |-> <<>>, threw |-> FALSE]

\* what a call of validateObject leaves: the result it returns, the FixResult
\* of its fixer (fixedData is the data of it if it is `fixed`), the heap that
\* data lives in, and the order of the shared oneOf array
Facade(res, fixResult, h, order) == [result |-> res, fix |-> fixResult, h |-> h, order |-> order]

\* validateObject, the return that follows the second validation, `final`
\* being what that validation returned
facadeReturn(d, final, fixed, order) ==
    IF final.threw THEN Facade(unexpectedError(d), NoFixResult, <<>>, order)
    ELSE Facade(final, fixed.result, fixed.h, order)

\* validateObject from the call of the fixer on, `fixed` being the heap after
\* that call and what it returned
validateObjectFixed(d, fixed, order, opts) ==
    IF fixed.result.threw THEN Facade(unexpectedError(d), NoFixResult, <<>>, order)
    ELSE facadeReturn(d, validate(Deref(fixed.h, fixed.result.data), order, opts), fixed,
                      orderAfterValidate(Deref(fixed.h, fixed.result.data), order))

\* validateObject(data, fix) from the first validation on, validationResult
\* being what it returned and `order` the order it left
validateObjectValidated(d, doFix, level, order, opts, validationResult) ==
    IF validationResult.threw THEN Facade(unexpectedError(d), NoFixResult, <<>>, order)
    ELSE IF ~doFix \/ validationResult.valid
    THEN Facade(validationResult, NoFixResult, <<>>, order)
    ELSE validateObjectFixed(d, fix(Store(<<>>, d).h, Store(<<>>, d).v, validationResult, level),
                             order, opts)

(***************************************************************************)
(* The state machine: a caller of one Validator, whose schema is the       *)
(* module-level rdformatSchema every Validator shares, and of a Fixer.     *)
(* The caller validates a document or a field, may hand the result to      *)
(* fix together with a document, and drops what it holds.                  *)
(***************************************************************************)
\* the documents a caller passes to fix along with the result of another one
ProbeDocs == {Null, ValidDiagnostic, Arr(<<Obj1("message", Str("x"))>>)}

\* the schemas a caller passes to validateField: the exported ones by name,
\* and the leaf schemas {type: 'string'}, {type: 'number', minimum: 1} and
\* {type: 'number', maximum: 0}
FieldSchemaNames ==
    {"position", "location", "source", "code", "suggestion", "diagnostic", "rdformat",
     "string", "line", "maximum"}

FieldSchema(name, order) ==
    CASE name = "string" -> [Node EXCEPT !.type = "string"]
      [] name = "line" -> [Node EXCEPT !.type = "number", !.minimum = {1}]
      [] name = "maximum" -> [Node EXCEPT !.type = "number", !.maximum = {0}]
      [] OTHER -> getSchema(name, order)

\* the values a caller passes to validateField
FieldValues ==
    {Num(n) : n \in 0..MaxLine}
    \cup {Str("x"), ValidDiagnostic, Arr(<<ValidDiagnostic>>),
          Obj1("line", Num(0)),
          Obj2("path", Str("a"), "range", Obj1("start", Obj1("line", Num(0)))),
          Obj2("name", Str(""), "url", Str("x")),
          Obj2("name", Str("s"), "url", Str("http://u")),
          Obj1("text", Str("x")),
          Obj2("text", Str("x"), "range", Obj1("start", Obj1("line", Num(0)))),
          Obj2("message", Str("x"), "location", Obj2("path", Str("a"), "foo", Num(1)))}

\* module load, `new Validator()` and `new Fixer()`
Init ==
    /\ oneOf = DeclaredOneOf
    /\ options = [strictMode |-> FALSE, allowExtraFields |-> TRUE]
    /\ op = "idle"
    /\ document = Undef
    /\ result = NoResult
    /\ heap = <<>>
    /\ fixInput = Undef
    /\ dataRef = Undef
    /\ fixLevel = "basic"
    /\ fixReturn = NoFixResult
    /\ rerun = NoRerun

\* validator.validate(d)
Validate(d) ==
    /\ op = "idle"
    /\ op' = "validate"
    /\ document' = d
    /\ result' = validate(d, oneOf, options)
    /\ oneOf' = orderAfterValidate(d, oneOf)
    /\ rerun' = NoRerun
    /\ UNCHANGED <<options, heap, fixInput, dataRef, fixLevel, fixReturn>>

\* validator.validateField(path, value, schema)
ValidateField(path, value, name) ==
    /\ op = "idle"
    /\ op' = "validateField"
    /\ document' = value
    /\ result' = validateField(path, value, FieldSchema(name, oneOf), options)
    /\ oneOf' = IF name = "rdformat" THEN orderAfterSort(value, oneOf) ELSE oneOf
    /\ rerun' = NoRerun
    /\ UNCHANGED <<options, heap, fixInput, dataRef, fixLevel, fixReturn>>

\* setOptions without the spread of the current options: what o does not name
\* falls back to the constructor's default
ReplaceOptions(current, o) ==
    [key \in DOMAIN current |->
        IF key \in DOMAIN o THEN o[key] ELSE key = "allowExtraFields"]

\* Validator.setOptions: { ...this.options, ...options }
mergeOptions(current, o) ==
    [key \in DOMAIN current |-> IF key \in DOMAIN o THEN o[key] ELSE current[key]]

\* validator.setOptions(o), called when the caller holds no result or the
\* result of a validate call
SetOptions(o) ==
    /\ op = "idle" \/ (op = "validate" /\ document \in DecoratedDiagnostics)
    /\ options' = mergeOptions(options, o)
    /\ options' # options
    /\ op' = IF op = "idle" THEN "idle" ELSE "setOptions"
    /\ UNCHANGED <<oneOf, document, result, heap, fixInput, dataRef, fixLevel, fixReturn,
                   rerun>>

\* what a call of validateObject leaves, `done` being what the call computed
FacadeCalled(d, level, done) ==
    /\ op' = "validateObject"
    /\ document' = d
    /\ result' = done.result
    /\ oneOf' = done.order
    /\ heap' = done.h
    /\ fixInput' = d
    /\ dataRef' = Undef
    /\ fixLevel' = level
    /\ fixReturn' = done.fix
    /\ rerun' = NoRerun
    /\ UNCHANGED options

\* new RDFormatValidator({...options, fixLevel: level}).validateObject(d, doFix)
ValidateObject(d, doFix, level) ==
    /\ op = "idle"
    /\ FacadeCalled(d, level,
           validateObjectValidated(d, doFix, level, orderAfterValidate(d, oneOf), options,
                                   validate(d, oneOf, options)))

\* what a call of fix leaves: `stored` is the document in its heap before the
\* call, `fixed` the heap after the call and what the call returned
Fixing(d, level, stored, fixed) ==
    /\ ~result.threw
    /\ op' = "fix"
    /\ fixInput' = d
    /\ dataRef' = stored.v
    /\ fixLevel' = level
    /\ heap' = fixed.h
    /\ fixReturn' = fixed.result
    /\ UNCHANGED <<oneOf, options, document, result, rerun>>

\* new Fixer({fixLevel: level}).fix(d, result), d living in the heap of `stored`
FixStored(d, level, stored) == Fixing(d, level, stored, fix(stored.h, stored.v, result, level))

\* fixer.fix(data, validator.validate(data))
Fix(level) == op = "validate" /\ FixStored(document, level, Store(<<>>, document))

\* fixer.fix(d, vr) with the result vr of validating something else
FixOther(d, level) ==
    /\ op \in {"validate", "validateField"}
    /\ rerun = NoRerun
    /\ d # document
    /\ FixStored(d, level, Store(<<>>, d))

\* the errors of a result the caller holds, after a call changed the document
\* they were reported on in place, from the heap h to the heap `changed`: an
\* error's value that is an object or an array of the document is that very
\* object, and shows what the call wrote into it
sharedValues(errors, h, data, changed) ==
    [j \in 1..Len(errors) |->
        IF /\ errors[j].value.k \in {"object", "array"}
           /\ getValueAtPath(h, data, parsePath(errors[j].path)).k = "ref"
           /\ Deref(h, getValueAtPath(h, data, parsePath(errors[j].path))) = errors[j].value
        THEN [errors[j] EXCEPT
                 !.value = Deref(changed, getValueAtPath(h, data, parsePath(errors[j].path)))]
        ELSE errors[j]]

\* what a call of applyFix on the caller's own document leaves: `stored` is
\* the document in its heap before the call, `done` the heap after the call
\* and what the call returned.  fixReturn collects what the calls returned so
\* far: the AppliedFix records, and the errors for which the answer was null,
\* which are the very objects of result.errors and change with them
ApplyFixCalled(level, stored, error, done) ==
    /\ op' = "applyFix"
    /\ heap' = done.h
    /\ dataRef' = stored.v
    /\ document' = Deref(done.h, stored.v)
    /\ result' = [result EXCEPT !.errors = sharedValues(result.errors, stored.h, stored.v, done.h)]
    /\ fixInput' = IF op = "validate" THEN document ELSE fixInput
    /\ fixLevel' = level
    /\ fixReturn' = [fixed |-> fixReturn.appliedFixes \o done.applied # <<>>,
                     data |-> stored.v,
                     appliedFixes |-> fixReturn.appliedFixes \o done.applied,
                     remainingErrors |->
                         sharedValues(IF done.applied = <<>> /\ ~done.threw
                                      THEN Append(fixReturn.remainingErrors, error)
                                      ELSE fixReturn.remainingErrors,
                                      stored.h, stored.v, done.h),
                     threw |-> done.threw]
    /\ UNCHANGED <<oneOf, options, rerun>>

\* for (const e of r.errors) new Fixer({fixLevel: level}).applyFix(d, e), one
\* call: r = validator.validate(d), and d is the caller's own document, which
\* applyFix changes in place.  The call takes the next error of r.errors
ApplyFix(level) ==
    /\ \/ op = "validate" /\ rerun = NoRerun
       \/ op = "applyFix" /\ level = fixLevel
    /\ ~result.threw
    /\ ~fixReturn.threw
    /\ Len(fixReturn.appliedFixes) + Len(fixReturn.remainingErrors) < Len(result.errors)
    /\ ApplyFixCalled(level,
           IF op = "validate" THEN Store(<<>>, document) ELSE [h |-> heap, v |-> dataRef],
           result.errors[Len(fixReturn.appliedFixes) + Len(fixReturn.remainingErrors) + 1],
           applyFix(IF op = "validate" THEN Store(<<>>, document).h ELSE heap,
                    IF op = "validate" THEN Store(<<>>, document).v ELSE dataRef,
                    result.errors[Len(fixReturn.appliedFixes) + Len(fixReturn.remainingErrors) + 1],
                    level))

\* validator.validate(r.data), r being what fixer.fix(data, validator.validate(data))
\* returned: the caller validates the output of a first fix
Revalidate ==
    /\ op = "fix"
    /\ fixInput = document
    /\ ~fixReturn.threw
    /\ rerun.passes = 0
    /\ op' = "validate"
    /\ document' = Deref(heap, fixReturn.data)
    /\ result' = validate(Deref(heap, fixReturn.data), oneOf, options)
    /\ oneOf' = orderAfterValidate(Deref(heap, fixReturn.data), oneOf)
    /\ rerun' = [passes |-> rerun.passes + 1, level |-> fixLevel,
                 resolved |-> fixReturn.remainingErrors = <<>>]
    /\ heap' = <<>>
    /\ fixInput' = Undef
    /\ dataRef' = Undef
    /\ fixLevel' = "basic"
    /\ fixReturn' = NoFixResult
    /\ UNCHANGED options

\* the caller drops what the last call returned
Return ==
    /\ op # "idle"
    /\ op' = "idle"
    /\ document' = Undef
    /\ result' = NoResult
    /\ heap' = <<>>
    /\ fixInput' = Undef
    /\ dataRef' = Undef
    /\ fixLevel' = "basic"
    /\ fixReturn' = NoFixResult
    /\ rerun' = NoRerun
    /\ UNCHANGED <<oneOf, options>>

\* the option bags a caller passes to setOptions
OptionUpdates ==
    [{"strictMode"} -> BOOLEAN] \cup [{"allowExtraFields"} -> BOOLEAN]
    \cup [{"strictMode", "allowExtraFields"} -> BOOLEAN]

Next ==
    \/ \E d \in Docs : Validate(d)
    \/ \E path \in {<<>>, <<"test", ".", "line">>}, value \in FieldValues, name \in FieldSchemaNames :
           ValidateField(path, value, name)
    \/ \E o \in OptionUpdates : SetOptions(o)
    \/ \E level \in {"basic", "aggressive"} : Fix(level)
    \/ \E d \in ProbeDocs, level \in {"basic", "aggressive"} : FixOther(d, level)
    \/ \E level \in {"basic", "aggressive"} : ApplyFix(level)
    \/ Revalidate
    \/ \E d \in Diagnostics \cup DecoratedDiagnostics \cup ProbeDocs, doFix \in BOOLEAN,
          level \in {"basic", "aggressive"} : ValidateObject(d, doFix, level)
    \/ Return

Spec == Init /\ [][Next]_vars

(***************************************************************************)
(* The path helpers of the fixer on their own: setValueAtPath called with  *)
(* a document, a path and a value, as the fixers call it.                  *)
(***************************************************************************)
\* the calls setValueAtPath(doc, parsePath(p), v): documents with the
\* properties a and b present, null, scalar, object or array, paths of one to
\* three segments, numeric or not, and values, scalar or container
PathCalls ==
    {EmptyObject, Obj1("a", Null), Obj1("a", EmptyObject), Obj1("a", Arr(<<>>)),
     Obj1("a", Obj1("b", Num(1))), Obj1("a", Arr(<<Obj1("b", Num(1))>>)),
     Obj1("a", Num(5)), Obj2("a", Obj1("b", Null), "b", Num(1)),
     Arr(<<>>), Arr(<<EmptyObject>>)}
    \X {<<"a">>, <<"0">>, <<"a", ".", "b">>, <<"a", "[", "0", "]">>, <<"0", ".", "b">>,
        <<"a", "[", "0", "]", ".", "b">>, <<"a", ".", "b", "[", "1", "]">>,
        <<"a", ".", "b", ".", "a">>}
    \X {Num(5), Str("x"), Undef, Null, EmptyObject, Arr(<<>>)}

\* setValueAtPath(doc, parsePath(p), v), doc and v living in one heap: the
\* heap after the call, the root of doc, and whether the call threw
SetValue(doc, p, v) ==
    /\ op = "idle"
    /\ op' = "setValueAtPath"
    /\ document' = doc
    /\ fixInput' = v
    /\ dataRef' = Store(<<>>, doc).v
    /\ heap' = setValueAtPath(Store(Store(<<>>, doc).h, v).h, Store(<<>>, doc).v, parsePath(p),
                              Store(Store(<<>>, doc).h, v).v).h
    /\ fixReturn' =
           [NoFixResult EXCEPT
               !.threw = setValueAtPath(Store(Store(<<>>, doc).h, v).h, Store(<<>>, doc).v,
                                        parsePath(p), Store(Store(<<>>, doc).h, v).v).threw]
    /\ UNCHANGED <<oneOf, options, result, fixLevel, rerun>>

PathNext ==
    \/ \E call \in PathCalls : SetValue(call[1], call[2], call[3])
    \/ Return

PathSpec == Init /\ [][PathNext]_vars

(***************************************************************************)
(* The claims.                                                             *)
(***************************************************************************)
\* a call of fix has returned or thrown
FixCalled == op = "fix"

\* a call of validate has returned
ValidateReturned == op = "validate" /\ ~result.threw

\* C1: fix(data, vr) leaves `data` deep-equal to what it was before the call,
\* at either fix level and for every vr, and the data of the returned result
\* shares no object or array with `data`, whether or not a fix was applied.
C1_FixLeavesDataAlone ==
    FixCalled =>
        /\ Deref(heap, dataRef) = fixInput
        /\ ~fixReturn.threw => Reach(heap, fixReturn.data) \cap Reach(heap, dataRef) = {}

\* a call of fix that repaired a document of nested objects: the returned
\* document differs from the one passed
C1_Witness ==
    /\ FixCalled
    /\ fixReturn.fixed
    /\ Cardinality(Reach(heap, dataRef)) >= 2
    /\ Deref(heap, fixReturn.data) # fixInput

\* C2: for a fixed pair (data, options), validate(data) returns the same
\* errors and the same warnings on every call, whatever was validated between
\* the calls: it returns what the first call after module load returns.
C2_ValidateDeterministic ==
    ValidateReturned =>
        /\ result.errors = validate(document, DeclaredOneOf, options).errors
        /\ result.warnings = validate(document, DeclaredOneOf, options).warnings

\* the errors of the alternative titled `title` for the validated document
AlternativeErrors(title) == validateValue(document, Alternative(title), <<>>, options).e

GenericCodes ==
    {"TYPE_MISMATCH", "REQUIRED_PROPERTY_MISSING", "ENUM_VALIDATION_FAILED",
     "MIN_VALUE_VIOLATION", "MAX_VALUE_VIOLATION"}

SpecificCodes ==
    {"MISSING_DIAGNOSTIC_MESSAGE", "MISSING_DIAGNOSTIC_LOCATION", "INVALID_SEVERITY",
     "INVALID_POSITION", "INVALID_RANGE", "INVALID_LOCATION"}

\* the error is one of the list, or the domain-specific replacement of a
\* generic error of the list at the same path
StemsFrom(error, errors) ==
    \E i \in 1..Len(errors) :
        \/ errors[i] = error
        \/ /\ errors[i].path = error.path
           /\ errors[i].code \in GenericCodes
           /\ error.code \in SpecificCodes

\* C3: for a value that matches none of the three top-level alternatives,
\* every error validate returns stems from the error list of one and the
\* same alternative (a generic code possibly replaced by its specific code at
\* the same path).
C3_ErrorsFromOneAlternative ==
    (/\ ValidateReturned
     /\ inputShapeError(document) = <<>>
     /\ \A title \in {"Diagnostic", "DiagnosticArray", "DiagnosticResult"} :
            AlternativeErrors(title) # <<>>)
    => \E title \in {"Diagnostic", "DiagnosticArray", "DiagnosticResult"} :
           \A i \in 1..Len(result.errors) :
               StemsFrom(result.errors[i], AlternativeErrors(title))

\* the fields of the validated diagnostic whose value violates the schema of
\* the field
ViolatedFields ==
    {field \in {"message", "location", "severity"} :
        /\ HasOwn(document, field)
        /\ validateValue(document.o[field], diagnosticSchema.ps[field], <<field>>, options).e
               # <<>>}

\* C4: a diagnostic with violations in N different fields yields at least N
\* errors from one call of validate.
C4_AtLeastOneErrorPerViolation ==
    (ValidateReturned /\ document.k = "object" /\ ~HasOwn(document, "diagnostics"))
    => Len(result.errors) >= Cardinality(ViolatedFields)

\* C5: in a result of validate no path carries both a generic structural
\* error and a domain-specific error.
C5_NoGenericBesideSpecific ==
    ValidateReturned =>
        \A i, j \in 1..Len(result.errors) :
            ~(/\ result.errors[i].path = result.errors[j].path
              /\ result.errors[i].code \in GenericCodes
              /\ result.errors[j].code \in SpecificCodes)

\* the result with the single error `code` at path "", and no warning
OnlyError(code) ==
    /\ ~result.threw
    /\ ~result.valid
    /\ Len(result.errors) = 1
    /\ result.errors[1].code = code
    /\ result.errors[1].path = <<>>
    /\ result.warnings = <<>>

\* C6: validate returns exactly one error, valid false and no warning for a
\* null or undefined input (NULL_INPUT at path ""), for a blank string or an
\* object without keys (EMPTY_INPUT), and for an array without elements
\* (EMPTY_ARRAY).
C6_InputShapeErrors ==
    op = "validate" =>
        /\ document.k \in {"null", "undefined"} => OnlyError("NULL_INPUT")
        /\ (document.k = "string" /\ IsBlank(document.s)) => OnlyError("EMPTY_INPUT")
        /\ (document.k = "object" /\ Len(Keys(document)) = 0) => OnlyError("EMPTY_INPUT")
        /\ (document.k = "array" /\ Len(document.e) = 0) => OnlyError("EMPTY_ARRAY")

\* validate has returned for an object without keys
C6_Witness ==
    /\ op = "validate"
    /\ document = EmptyObject
    /\ Len(result.errors) = 1

\* C7: in every result of validate and of validateField, valid is true exactly
\* when the list of errors is empty, whatever the warnings.
C7_ValidIffNoErrors ==
    (op \in {"validate", "validateField"} /\ ~result.threw)
    => (result.valid <=> Len(result.errors) = 0)

\* validateField has returned a valid result with a warning
C7_Witness ==
    /\ op = "validateField"
    /\ result.valid
    /\ Len(result.warnings) > 0

\* the objects of the validated document the claim C8 speaks of, each with the
\* path the validator gives it: the document, the elements of a top-level
\* array, the elements of the `diagnostics` array of a result
DiagnosticLikeObjects ==
    {[path |-> <<>>, obj |-> document]}
    \cup (IF IsArray(document)
          THEN {[path |-> <<ToString(i - 1)>>, obj |-> document.e[i]] :
                    i \in 1..Len(document.e)}
          ELSE {})
    \cup (IF document.k = "object" /\ IsArray(Prop(document, "diagnostics"))
          THEN {[path |-> <<"diagnostics", "[", ToString(i - 1), "]">>,
                 obj |-> Prop(document, "diagnostics").e[i]] :
                    i \in 1..Len(Prop(document, "diagnostics").e)}
          ELSE {})

\* the number of errors with the code at the path
ErrorsAt(path, code) ==
    Cardinality({i \in 1..Len(result.errors) :
                    result.errors[i].path = path /\ result.errors[i].code = code})

\* validate has returned valid: false, with exactly one error `specific` at
\* the path of the object extended by `field`, and no REQUIRED_PROPERTY_MISSING
\* there
ReportedMissing(node, field, specific) ==
    /\ ~result.threw
    /\ ~result.valid
    /\ ErrorsAt(joinPath(node.path, <<field>>), specific) = 1
    /\ ErrorsAt(joinPath(node.path, <<field>>), "REQUIRED_PROPERTY_MISSING") = 0

\* C8: for every object (the document, an element of a top-level array, an
\* element of the diagnostics of a result) that has one of message, location,
\* severity, source and lacks `location` (`message`), validate returns
\* valid: false with exactly one MISSING_DIAGNOSTIC_LOCATION
\* (MISSING_DIAGNOSTIC_MESSAGE) at the path of the object extended by the
\* name of the field, and no REQUIRED_PROPERTY_MISSING at that path.
C8_MissingFieldReported ==
    (op = "validate" /\ inputShapeError(document) = <<>>) =>
        \A node \in DiagnosticLikeObjects :
            (/\ node.obj.k = "object"
             /\ \E key \in {"message", "location", "severity", "source"} :
                    HasOwn(node.obj, key))
            => /\ ~HasOwn(node.obj, "location")
                    => ReportedMissing(node, "location", "MISSING_DIAGNOSTIC_LOCATION")
               /\ ~HasOwn(node.obj, "message")
                    => ReportedMissing(node, "message", "MISSING_DIAGNOSTIC_MESSAGE")

RECURSIVE Merges(_, _, _)
\* `errors` is `applied` and `remaining` interleaved: each error is, in order,
\* the next remaining error or the error the next applied fix repaired
Merges(errors, applied, remaining) ==
    IF errors = <<>> THEN applied = <<>> /\ remaining = <<>>
    ELSE \/ /\ remaining # <<>>
            /\ Head(remaining) = Head(errors)
            /\ Merges(Tail(errors), applied, Tail(remaining))
         \/ /\ applied # <<>>
            /\ Head(applied).path = Head(errors).path
            /\ Merges(Tail(errors), Tail(applied), remaining)

\* C9: fix(data, vr) goes through vr.errors once, in order: appliedFixes has
\* one record per repaired error in the order of the errors, remainingErrors
\* is the sub-sequence of the errors that were not repaired, unchanged and in
\* order, the two together count as many as vr.errors, and `fixed` is true
\* exactly when appliedFixes is not empty.
C9_FixPartitionsErrors ==
    (FixCalled /\ ~fixReturn.threw) =>
        /\ Len(fixReturn.appliedFixes) + Len(fixReturn.remainingErrors) = Len(result.errors)
        /\ Merges(result.errors, fixReturn.appliedFixes, fixReturn.remainingErrors)
        /\ fixReturn.fixed <=> Len(fixReturn.appliedFixes) > 0

\* a call of fix that repaired an error after leaving an earlier one
C9_Witness ==
    /\ FixCalled
    /\ ~fixReturn.threw
    /\ Len(fixReturn.appliedFixes) > 0
    /\ Len(fixReturn.remainingErrors) > 0
    /\ fixReturn.remainingErrors[1] = result.errors[1]

\* C10: during fix(data, validate(data)), at either fix level, an error that
\* canFix accepts is repaired and does not land in remainingErrors, and every
\* error in remainingErrors is one that canFix rejects.
C10_CanFixAgreesWithApplyFix ==
    (FixCalled /\ fixInput = document /\ ~fixReturn.threw) =>
        \A i \in 1..Len(fixReturn.remainingErrors) :
            ~canFix(fixReturn.remainingErrors[i], fixLevel)

\* a call of fix on the output of an earlier fix(data, validate(data)) of the
\* same level that left no error, with a fresh validation of that output
SecondPass ==
    /\ FixCalled
    /\ fixInput = document
    /\ rerun.passes > 0
    /\ rerun.resolved
    /\ rerun.level = fixLevel

\* C11: when r1 = fix(data, validate(data)) has no remaining error,
\* fix(r1.data, validate(r1.data)) at the same level applies no fix.
C11_FixIdempotent ==
    (SecondPass /\ ~fixReturn.threw) => fixReturn.appliedFixes = <<>>

\* C12: fix(data, validate(data)) returns a FixResult at either level and for
\* every document: it ends in no exception, and what it leaves unrepaired it
\* hands back in remainingErrors as validate reported it.
C12_FixNeverThrows ==
    (FixCalled /\ fixInput = document) =>
        /\ ~fixReturn.threw
        /\ \A i \in 1..Len(fixReturn.remainingErrors) :
               Includes(result.errors, fixReturn.remainingErrors[i])

\* C13: validate returns a result for every JSON value and every option set:
\* it ends in no exception.
C13_ValidateNeverThrows ==
    op = "validate" => ~result.threw

\* a call of fix that returned exactly one AppliedFix: the working document
\* before the repair is the input, after the repair it is the returned data
OneRepair ==
    /\ FixCalled
    /\ ~fixReturn.threw
    /\ Len(fixReturn.appliedFixes) = 1

\* the value at the path of the one AppliedFix in the input of the call
ValueBefore == getValueAtPath(<<>>, fixInput, parsePath(fixReturn.appliedFixes[1].path))

\* the value at that path in the data the call returned
ValueAfter ==
    Deref(heap, getValueAtPath(heap, fixReturn.data, parsePath(fixReturn.appliedFixes[1].path)))

\* C14: the `before` of an AppliedFix is the value at its path in the working
\* document just before the repair, its `after` the value at its path just
\* after the repair, for every path, the root path "" included.
C14_BeforeAndAfterAreValuesAtPath ==
    OneRepair =>
        /\ Deref(heap, fixReturn.appliedFixes[1].before) = ValueBefore
        /\ Deref(heap, fixReturn.appliedFixes[1].after) = ValueAfter

\* the AppliedFix records of the returned FixResult that repaired an
\* INVALID_SEVERITY error
SeverityFixes ==
    {i \in 1..Len(fixReturn.appliedFixes) :
        fixReturn.appliedFixes[i].message[1] = "Normalized severity from"}

\* the severity the claim C15 assigns to a current value
SeverityFor(v) ==
    IF v.k # "string" THEN "UNKNOWN_SEVERITY"
    ELSE IF ToLowerCase(v.s) \in {"error", "err", "fatal"} THEN "ERROR"
    ELSE IF ToLowerCase(v.s) \in {"warning", "warn", "caution"} THEN "WARNING"
    ELSE IF ToLowerCase(v.s) \in {"info", "information", "note"} THEN "INFO"
    ELSE "UNKNOWN_SEVERITY"

\* C15: the repair of an INVALID_SEVERITY error writes ERROR for a current
\* value of error/err/fatal, WARNING for warning/warn/caution, INFO for
\* info/information/note, whatever the case of the letters, and
\* UNKNOWN_SEVERITY for every other string and every value that is no string:
\* the written value is one of the four members of the enum, and no
\* INVALID_SEVERITY error is left unrepaired.
C15_SeverityFixIsTotal ==
    (FixCalled /\ ~fixReturn.threw) =>
        /\ \A i \in SeverityFixes :
               /\ fixReturn.appliedFixes[i].after
                      = Str(SeverityFor(Deref(heap, fixReturn.appliedFixes[i].before)))
               /\ Includes(severityEnum, fixReturn.appliedFixes[i].after.s)
        /\ \A i \in 1..Len(fixReturn.remainingErrors) :
               fixReturn.remainingErrors[i].code # "INVALID_SEVERITY"

\* a call of fix that turned the severity "Warn" into WARNING
C15_Witness ==
    /\ FixCalled
    /\ ~fixReturn.threw
    /\ \E i \in SeverityFixes :
           /\ fixReturn.appliedFixes[i].before = Str("Warn")
           /\ fixReturn.appliedFixes[i].after = Str("WARNING")

\* the codes the fixer repairs at the aggressive level only
AggressiveOnly ==
    {"EMPTY_STRING", "MIN_VALUE_VIOLATION", "MAX_VALUE_VIOLATION", "INVALID_POSITION"}

\* the errors of the list that carry one of the codes
WithCodes(errors, codes) == SelectSeq(errors, LAMBDA e : e.code \in codes)

\* C16: for an error coded EMPTY_STRING, MIN_VALUE_VIOLATION,
\* MAX_VALUE_VIOLATION or INVALID_POSITION canFix is false at the basic level
\* and true at the aggressive level, and a fix at the basic level hands every
\* such error back in remainingErrors.
C16_BasicLevelLeavesAggressiveCodes ==
    (FixCalled /\ ~fixReturn.threw) =>
        /\ \A i \in 1..Len(result.errors) :
               result.errors[i].code \in AggressiveOnly =>
                   /\ ~canFix(result.errors[i], "basic")
                   /\ canFix(result.errors[i], "aggressive")
        /\ fixLevel = "basic" =>
               WithCodes(fixReturn.remainingErrors, AggressiveOnly)
                   = WithCodes(result.errors, AggressiveOnly)

\* a fix at the basic level that repaired an error and handed an EMPTY_STRING
\* error back
C16_Witness ==
    /\ FixCalled
    /\ ~fixReturn.threw
    /\ fixLevel = "basic"
    /\ fixReturn.fixed
    /\ \E i \in 1..Len(fixReturn.remainingErrors) :
           fixReturn.remainingErrors[i].code = "EMPTY_STRING"

\* validateObject has returned a result that carries fixedData
CarriesFixedData == op = "validateObject" /\ fixReturn.fixed

\* C17: a result of validateObject(data, true) that carries fixedData has
\* valid true and no errors.
C17_FixedDataIsValid ==
    CarriesFixedData => (result.valid /\ result.errors = <<>>)

\* the keys of the validated object that diagnosticSchema does not declare
UndeclaredKeys == SelectSeq(Keys(document), LAMBDA key : ~Includes(diagnosticSchema.props, key))

\* the validated object without those keys
DeclaredPart ==
    Obj(SelectSeq(Keys(document), LAMBDA key : Includes(diagnosticSchema.props, key)),
        [key \in {x \in DOMAIN document.o : Includes(diagnosticSchema.props, x)} |->
            document.o[key]])

\* validate was called with a valid diagnostic to which undeclared properties
\* were added
ValidButForUndeclared ==
    /\ op = "validate"
    /\ document.k = "object"
    /\ UndeclaredKeys # <<>>
    /\ Keys(DeclaredPart) # <<>>
    /\ validateValue(DeclaredPart, diagnosticSchema, <<>>, options).e = <<>>

\* the list has an entry with the code at the path
HasAt(list, path, code) ==
    \E i \in 1..Len(list) : list[i].path = path /\ list[i].code = code

\* C18: a property the schema does not declare is reported with code
\* UNKNOWN_PROPERTY, as an error when strictMode is on and as a warning, never
\* as an error, when it is off; with strictMode off a valid document with
\* undeclared properties added, under any name, is still returned as valid.
C18_UnknownPropertyReported ==
    ValidButForUndeclared =>
        /\ ~result.threw
        /\ \A i \in 1..Len(UndeclaredKeys) :
               IF options.strictMode
               THEN HasAt(result.errors, <<UndeclaredKeys[i]>>, "UNKNOWN_PROPERTY")
               ELSE /\ HasAt(result.warnings, <<UndeclaredKeys[i]>>, "UNKNOWN_PROPERTY")
                    /\ ~HasAt(result.errors, <<UndeclaredKeys[i]>>, "UNKNOWN_PROPERTY")
        /\ ~options.strictMode => result.valid

\* C19: validate and validateField leave the order of the top-level oneOf
\* alternatives as declared (Diagnostic, DiagnosticArray, DiagnosticResult).
C19_OneOfKeepsDeclarationOrder ==
    op \in {"validate", "validateField"} => oneOf = DeclaredOneOf

\* validate was called with a diagnostic result whose diagnostics is an empty
\* array and whose schema pass finds nothing else to report
EmptyResultValidated ==
    /\ op = "validate"
    /\ isDiagnosticResult(document)
    /\ Prop(document, "diagnostics") = Arr(<<>>)
    /\ validateValue(document, Alternative("DiagnosticResult"), <<>>, options).e = <<>>
    /\ validateValue(document, Alternative("DiagnosticResult"), <<>>, options).w = <<>>

\* C20: for a diagnostic result whose diagnostics is an empty array and whose
\* other fields are valid, validate returns valid:true with no errors and
\* exactly one warning, with code EMPTY_ARRAY.
C20_EmptyDiagnosticsWarnsOnce ==
    EmptyResultValidated =>
        /\ ~result.threw
        /\ result.valid
        /\ result.errors = <<>>
        /\ Len(result.warnings) = 1
        /\ result.warnings[1].code = "EMPTY_ARRAY"

C20_Witness ==
    /\ EmptyResultValidated
    /\ HasOwn(document, "severity")
    /\ HasOwn(document, "source")
    /\ HasAt(result.warnings, <<"diagnostics">>, "EMPTY_ARRAY")

\* C21: setOptions(o) gives each option named in o the given value and keeps
\* every other option; it leaves the result the caller holds as it was, and a
\* validate call made afterwards computes its result under the merged options.
C21_SetOptionsMerges ==
    [][/\ \A o \in OptionUpdates :
              SetOptions(o) =>
                  /\ \A key \in DOMAIN options :
                         options'[key] = IF key \in DOMAIN o THEN o[key] ELSE options[key]
                  /\ result' = result
                  /\ document' = document
       /\ (op = "idle" /\ op' = "validate") =>
              /\ options' = options
              /\ result' = validate(document', oneOf, options)]_vars

\* setOptions was called while the caller held a valid result that the new
\* options would not give
C21_Witness ==
    /\ op = "setOptions"
    /\ result.valid
    /\ ~validate(document, DeclaredOneOf, options).valid

\* the errors of the j-th alternative tried for the validated document, the
\* alternatives being tried in the order the sort left
TriedErrors(j) == validateValue(document, Alternative(oneOf[j]), <<>>, options).e

\* the match score of the j-th alternative tried
TriedScore(j) == calculateSchemaMatchScore(document, Alternative(oneOf[j]), TriedErrors(j))

\* validate ran the oneOf branch on the document and every alternative failed
NoAlternativePasses ==
    /\ op = "validate"
    /\ inputShapeError(document) = <<>>
    /\ \A j \in 1..Len(oneOf) : TriedErrors(j) # <<>>

\* C22: when no alternative of the oneOf passes, the errors the oneOf branch
\* of validateValue surfaces are the error list of an alternative whose match
\* score is the maximum over the alternatives, and which was tried before
\* every other alternative of that score.
C22_BestMatchSurfaced ==
    NoAlternativePasses =>
        \E j \in 1..Len(oneOf) :
            /\ validateValue(document, rdformatSchema(oneOf), <<>>, options).e = TriedErrors(j)
            /\ \A i \in 1..Len(oneOf) : TriedScore(i) <= TriedScore(j)
            /\ \A i \in 1..(j - 1) : TriedScore(i) < TriedScore(j)

\* every alternative failed, two of them tie for the best score and their
\* error lists differ
C22_Witness ==
    /\ NoAlternativePasses
    /\ TriedScore(1) = TriedScore(2)
    /\ TriedScore(3) <= TriedScore(1)
    /\ TriedErrors(1) # TriedErrors(2)

\* C23: for a top-level value that is a non-array object, validate never
\* reports a TYPE_MISMATCH at the root path whose expected type is array.
C23_NoArrayExpectedForObject ==
    (ValidateReturned /\ document.k = "object") =>
        \A i \in 1..Len(result.errors) :
            ~(/\ result.errors[i].code = "TYPE_MISMATCH"
              /\ result.errors[i].path = <<>>
              /\ result.errors[i].expected = <<"array">>)

\* C24: for a top-level object with a `diagnostics` key whose value is not an
\* array, validate returns valid:false with a TYPE_MISMATCH error at path
\* `diagnostics` whose expected type is array.
C24_NonArrayDiagnosticsReported ==
    (/\ op = "validate"
     /\ document.k = "object"
     /\ HasOwn(document, "diagnostics")
     /\ ~IsArray(Prop(document, "diagnostics")))
    => /\ ~result.valid
       /\ \E i \in 1..Len(result.errors) :
              /\ result.errors[i].code = "TYPE_MISMATCH"
              /\ result.errors[i].path = <<"diagnostics">>
              /\ result.errors[i].expected = <<"array">>

\* validate checked the string at `message` against the message schema of the
\* Diagnostic alternative, whose minLength is 1
MessageChecked ==
    /\ op = "validate"
    /\ document.k = "object"
    /\ HasOwn(document, "message")
    /\ Prop(document, "message").k = "string"

\* C25: for a string checked against a schema node with minLength > 0,
\* EMPTY_STRING is reported exactly when the string has length 0,
\* MIN_LENGTH_VIOLATION exactly when it is non-empty and shorter than
\* minLength, and never both.
C25_EmptyStringOnlyForLengthZero ==
    MessageChecked =>
        /\ HasAt(AlternativeErrors("Diagnostic"), <<"message">>, "EMPTY_STRING")
               <=> Len(Prop(document, "message").s) = 0
        /\ HasAt(AlternativeErrors("Diagnostic"), <<"message">>, "MIN_LENGTH_VIOLATION")
               <=> /\ Len(Prop(document, "message").s) > 0
                   /\ \E m \in diagnosticSchema.ps["message"].minLength :
                          Len(Prop(document, "message").s) < m
        /\ ~(/\ HasAt(AlternativeErrors("Diagnostic"), <<"message">>, "EMPTY_STRING")
             /\ HasAt(AlternativeErrors("Diagnostic"), <<"message">>, "MIN_LENGTH_VIOLATION"))

\* the path has the tokens of `[i]` from position at on
BracketedAt(path, at) ==
    /\ Len(path) >= at + 2
    /\ path[at] = "["
    /\ IsDigits(path[at + 1])
    /\ path[at + 2] = "]"

\* every entry of the list that lies below `base` addresses an element of the
\* array at `base` as base[i]
ElementPathsUnder(list, base) ==
    \A i \in 1..Len(list) :
        (Len(list[i].path) > Len(base) /\ SubSeq(list[i].path, 1, Len(base)) = base)
        => BracketedAt(list[i].path, Len(base) + 1)

\* C26: an error or warning raised for element i of an array at path P has a
\* path that starts with P followed by [i]; for a top-level array P is empty
\* and the path starts with [i].
C26_ElementPathsUseBrackets ==
    ValidateReturned =>
        /\ IsArray(document) =>
               /\ ElementPathsUnder(result.errors, <<>>)
               /\ ElementPathsUnder(result.warnings, <<>>)
        /\ (isDiagnosticResult(document) /\ IsArray(Prop(document, "diagnostics"))) =>
               /\ ElementPathsUnder(result.errors, <<"diagnostics">>)
               /\ ElementPathsUnder(result.warnings, <<"diagnostics">>)

\* every proper prefix of the path leads, in the document, to nothing
\* (undefined or null) or to an object or array
PrefixesLead(doc, parts) ==
    \A k \in 1..(Len(parts) - 1) :
        getValueAtPath(Store(<<>>, doc).h, Store(<<>>, doc).v, SubSeq(parts, 1, k)).k
            \in {"undefined", "null", "ref"}

\* after the call: the value at the path is v; a container that existed at a
\* prefix of the path is the same container, and one that did not is new, an
\* array when the next segment is numeric and an object otherwise
SetThenGet(doc, parts, v) ==
    /\ ~fixReturn'.threw
    /\ Deref(heap', getValueAtPath(heap', dataRef', parts)) = v
    /\ \A k \in 1..(Len(parts) - 1) :
           IF getValueAtPath(Store(<<>>, doc).h, dataRef', SubSeq(parts, 1, k)).k = "ref"
           THEN getValueAtPath(heap', dataRef', SubSeq(parts, 1, k))
                    = getValueAtPath(Store(<<>>, doc).h, dataRef', SubSeq(parts, 1, k))
           ELSE /\ getValueAtPath(heap', dataRef', SubSeq(parts, 1, k)).k = "ref"
                /\ getValueAtPath(heap', dataRef', SubSeq(parts, 1, k)).n
                       > Len(Store(Store(<<>>, doc).h, v).h)
                /\ heap'[getValueAtPath(heap', dataRef', SubSeq(parts, 1, k)).n].k
                       = IF IsDigits(parts[k + 1]) THEN "array" ELSE "object"

\* C27: for an object or array doc, a non-empty path p whose prefixes each
\* lead to nothing or to an object or array, and a value v, after
\* setValueAtPath(doc, parsePath(p), v) getValueAtPath(doc, parsePath(p)) is v;
\* a container created on the way is an array when the next segment is
\* numeric and an object otherwise, and containers that existed are kept.
C27_SetThenGet ==
    [][\A call \in PathCalls :
           (SetValue(call[1], call[2], call[3]) /\ PrefixesLead(call[1], parsePath(call[2])))
           => SetThenGet(call[1], parsePath(call[2]), call[3])]_vars

\* a call that had to create an array and an object below it
C27_Witness ==
    /\ op = "setValueAtPath"
    /\ document = Obj1("a", Null)
    /\ Deref(heap, dataRef) = Obj1("a", Arr(<<Obj1("b", Str("x"))>>))

\* the path q leads to the path `at` or to a place above it
LeadsTo(q, at) == Len(q) <= Len(at) /\ SubSeq(at, 1, Len(q)) = q

\* the names of the properties or elements of a document
ChildKeys(v) ==
    IF v.k = "object" THEN {v.ks[i] : i \in 1..Len(v.ks)}
    ELSE IF v.k = "array"
    THEN {ToString(i - 1) : i \in 1..Len(v.e)} \cup {v.ks[i] : i \in 1..Len(v.ks)}
    ELSE {}

RECURSIVE SameOutside(_, _, _, _)
\* the documents a and b, both found at the path `at`, are deep-equal except
\* at, above and below the paths of fixedPaths; above such a path b may have
\* a container where a has nothing
SameOutside(a, b, at, fixedPaths) ==
    IF \E q \in fixedPaths : LeadsTo(q, at) THEN TRUE
    ELSE IF (\E q \in fixedPaths : LeadsTo(at, q))
            /\ b.k \in {"object", "array"} /\ a.k \in {b.k, "undefined", "null"}
    THEN \A key \in ChildKeys(a) \cup ChildKeys(b) :
             SameOutside(Prop(a, key), Prop(b, key), Append(at, key), fixedPaths)
    ELSE a = b

\* C28: the data fix returns differs from the input only at the paths of
\* appliedFixes, below them, and in containers created on the way to them;
\* everywhere else it is deep-equal to the input, and with no applied fix it
\* is deep-equal to the input.
C28_AppliedFixesAccountForChanges ==
    (FixCalled /\ ~fixReturn.threw) =>
        SameOutside(fixInput, Deref(heap, fixReturn.data), <<>>,
                    {parsePath(fixReturn.appliedFixes[i].path) :
                        i \in 1..Len(fixReturn.appliedFixes)})

\* a call of fix that repaired two places of a document and left a third
\* property as it was
C28_Witness ==
    /\ FixCalled
    /\ ~fixReturn.threw
    /\ Len(fixReturn.appliedFixes) >= 2
    /\ fixReturn.appliedFixes[1].path # <<>>
    /\ fixReturn.appliedFixes[1].path # fixReturn.appliedFixes[2].path
    /\ Deref(heap, fixReturn.data) # fixInput
    /\ \E key \in ChildKeys(fixInput) :
           /\ \A i \in 1..Len(fixReturn.appliedFixes) :
                  parsePath(fixReturn.appliedFixes[i].path)[1] # key
           /\ Prop(Deref(heap, fixReturn.data), key) = Prop(fixInput, key)

\* the types that the schemas declare for a property of the given name
DeclaredTypes(name) ==
    {s.ps[name].type :
        s \in {x \in {positionSchema, rangeSchema, locationSchema, sourceSchema, codeSchema,
                      suggestionSchema, relatedLocationSchema, diagnosticSchema,
                      diagnosticResultSchema} : name \in DOMAIN x.ps}}

\* the AppliedFix records of fix(data, validate(data)) that added a missing
\* property
MissingPropertyFixes ==
    {i \in 1..Len(fixReturn.appliedFixes) :
        fixReturn.appliedFixes[i].message[1] = "Added missing property with default value"}

\* C29: the default value that fix inserts for a REQUIRED_PROPERTY_MISSING,
\* MISSING_DIAGNOSTIC_MESSAGE or MISSING_DIAGNOSTIC_LOCATION error of validate
\* has the runtime type that the schema declares for the property.
C29_DefaultsHaveDeclaredType ==
    (FixCalled /\ fixInput = document /\ ~fixReturn.threw) =>
        \A i \in MissingPropertyFixes :
            Kind(heap, fixReturn.appliedFixes[i].after)
                \in DeclaredTypes(LastPart(parsePath(fixReturn.appliedFixes[i].path)))

\* C30: for a document whose schema pass, the validation against the
\* top-level oneOf, produced no error, the refinement pass adds no error and
\* validate returns valid:true.
C30_RefinementAddsNoError ==
    (/\ op = "validate"
     /\ inputShapeError(document) = <<>>
     /\ validateValue(document, rdformatSchema(oneOf), <<>>, options).e = <<>>)
    => (~result.threw /\ result.valid)

====
